---- MODULE Spec2Model ----
(***************************************************************************)
(* A model of the tarpc ring node: the overlay manager (join, graceful     *)
(* leave, missing-node repair), the resource manager and the CMH deadlock  *)
(* detector.  Node addresses are small integers.  RPC handlers that take a *)
(* lock, update and release it without an await in between are one step.   *)
(***************************************************************************)
EXTENDS Naturals, Integers, Sequences, FiniteSets, TLC

\* Number of node processes in the overlay specifications.
NumRingNodes == 4

VARIABLES
    nodes,            \* addresses of the node processes that were started
    neighbor_info,    \* Node.neighbor_info: node -> [next, nnext, prev]
    alive,            \* node -> whether its RPC server is serving (kill / revive)
    hist,             \* history: the last overlay operation and the overlay before it
    owned_resources,  \* Node.owned_resources: node -> (resource -> ResourceState)
    waiting_for,      \* Node.waiting_for: node -> (resource -> owner)
    used_resources,   \* Node.used_resources: node -> (resource -> owner)
    blocked_processes, \* Node.blocked_processes: node -> set of owners
    res_net,          \* resource messages and replies in flight
    res_hist,         \* history: commands issued, the last pop of a queue
    is_active,        \* Node.is_active: node -> BOOLEAN
    waiting_messages_from, \* Node.waiting_messages_from: node -> set of nodes
    last_test,        \* Node.last_test: node -> (initiator -> test number)
    wait_status,      \* Node.wait_status: node -> (initiator -> BOOLEAN)
    parent_nodes,     \* Node.parent_nodes: node -> (initiator -> node)
    probe_count,      \* Node.probe_count: node -> (initiator -> u32)
    cmh_stack,        \* the CMH handlers that wait for a send to return, innermost last
    cmh_msg,          \* the CMH message being sent, <<>> when there is none
    cmh_hist,         \* history: the detection rounds and the deadlocks declared
    cmh_parked,        \* the commands that run concurrently with the one in cmh_stack
    repairing,        \* Node.repairing: node -> BOOLEAN
    repair_tasks,     \* node -> missing nodes of its repair_topology calls in progress
    clients,          \* RpcClientManager.clients: node -> addresses it holds a client for
    lamport_time,     \* Node.lamport_time: node -> clock
    permission_queue, \* Node.permission_queue: node -> set of nodes
    joining           \* newcomer -> its other_joining handler in progress, <<>> if none

resVars == <<owned_resources, waiting_for, used_resources, blocked_processes,
             res_net, res_hist>>

repairVars == <<repairing, repair_tasks>>

joinVars == <<joining>>

nodeVars == <<clients, lamport_time, permission_queue>>

overlayVars == <<nodes, neighbor_info, alive, hist, repairing, repair_tasks,
                 clients, lamport_time, permission_queue, joining>>

cmhVars == <<is_active, waiting_messages_from, last_test, wait_status,
             parent_nodes, probe_count, cmh_stack, cmh_msg, cmh_hist,
             cmh_parked>>

vars == <<nodes, neighbor_info, alive, hist, owned_resources, waiting_for,
          used_resources, blocked_processes, res_net, res_hist,
          is_active, waiting_messages_from, last_test, wait_status,
          parent_nodes, probe_count, cmh_stack, cmh_msg, cmh_hist, cmh_parked,
          repairing, repair_tasks, clients, lamport_time, permission_queue,
          joining>>

\* Option::None for an address.
None == 0

----------------------------------------------------------------------------
(* Overlay: node.rs, server.rs *)

\* Node::new: the singleton triple next = nnext = prev = addr.
NodeNew(addr) == [next |-> addr, nnext |-> addr, prev |-> addr]

\* NodeRpcServer::change_next on node x.
change_next(nb, x, a) == [nb EXCEPT ![x].next = a]

\* NodeRpcServer::change_nnext on node x.
change_nnext(nb, x, a) == [nb EXCEPT ![x].nnext = a]

\* NodeRpcServer::change_prev on node x: the overlay afterwards.
change_prev(nb, x, a) == [nb EXCEPT ![x].prev = a]

\* NodeRpcServer::change_prev on node x: the value it returns (x's next).
change_prev_reply(nb, x) == nb[x].next

\* NodeRpcServer::change_nnext_of_prev on node x: x tells its prev to set nnext.
change_nnext_of_prev(nb, x, a) == change_nnext(nb, nb[x].prev, a)

\* other_joining forgetting to tell prev about its new nnext.
other_joining_no_prev_update(nb, al, h, addr) ==
    LET my_next == nb[h].next
        nb1 == change_prev(nb, my_next, addr)
        tmp == [next |-> my_next, nnext |-> nb1[h].nnext, prev |-> h]
        nb3 == [nb1 EXCEPT ![h].nnext = my_next]
        nb4 == [nb3 EXCEPT ![h].next = addr]
    IN  [nb |-> nb4, ok |-> TRUE, reply |-> tmp]

\* other_joining splicing the newcomer before h instead of after it.
other_joining_before(nb, al, h, addr) ==
    LET my_prev == nb[h].prev
        nb1 == change_nnext(nb, nb[my_prev].prev, addr)
        nb2 == change_next(change_nnext(nb1, my_prev, h), my_prev, addr)
        nb3 == change_prev(nb2, h, addr)
        tmp == [next |-> h, nnext |-> nb3[h].next, prev |-> my_prev]
    IN  [nb |-> nb3, ok |-> TRUE, reply |-> tmp]

\* other_joining handing the newcomer the next that old_next reported in
\* its reply to change_prev.
other_joining_reported_nnext(nb, al, h, addr) ==
    LET my_next == nb[h].next
        my_prev == nb[h].prev
        nb1 == change_prev(nb, my_next, addr)
        nb2 == change_nnext(nb1, my_prev, addr)
        tmp == [next |-> my_next, nnext |-> change_prev_reply(nb1, my_next),
                prev |-> h]
        nb3 == [nb2 EXCEPT ![h].nnext = my_next]
        nb4 == [nb3 EXCEPT ![h].next = addr]
    IN  IF ~al[my_next] THEN [nb |-> nb, ok |-> FALSE, reply |-> tmp]
        ELSE IF ~al[my_prev] THEN [nb |-> nb1, ok |-> FALSE, reply |-> tmp]
        ELSE [nb |-> nb4, ok |-> TRUE, reply |-> tmp]

\* NodeRpcServer::other_joining handled at h for newcomer addr: the overlay
\* afterwards, whether the handler ran to its end (an RPC to a stopped server
\* makes unwrap panic and the handler stops there), and the NeighborInfo
\* returned to the newcomer.
other_joining(nb, al, h, addr) ==
    LET my_next == nb[h].next
        my_prev == nb[h].prev
        nb1 == change_prev(nb, my_next, addr)
        nb2 == change_nnext(nb1, my_prev, addr)
        tmp == [next |-> my_next, nnext |-> nb2[h].nnext, prev |-> h]
        nb3 == [nb2 EXCEPT ![h].nnext = my_next]
        nb4 == [nb3 EXCEPT ![h].next = addr]
    IN  IF ~al[my_next] THEN [nb |-> nb, ok |-> FALSE, reply |-> tmp]
        ELSE IF ~al[my_prev] THEN [nb |-> nb1, ok |-> FALSE, reply |-> tmp]
        ELSE [nb |-> nb4, ok |-> TRUE, reply |-> tmp]

\* Node::try_join_other at n: on Ok install the returned triple, on Err return.
try_join_other(nb, al, n, other_addr) ==
    IF n = other_addr \/ ~al[other_addr]
    THEN [nb |-> nb, ok |-> FALSE]
    ELSE LET r == other_joining(nb, al, other_addr, n)
         IN  IF r.ok
             THEN [nb |-> [r.nb EXCEPT ![n] = r.reply], ok |-> TRUE]
             ELSE [nb |-> r.nb, ok |-> FALSE]

\* leave_topology forgetting change_nnext_of_prev in the general case.
leave_topology_no_nnext_of_prev(nb, al, l) ==
    LET p == nb[l].prev
        n == nb[l].next
        nn == nb[l].nnext
    IN  IF p = n
        THEN [nb |-> change_prev(change_next(nb, n, n), n, n), ok |-> TRUE]
        ELSE IF p = nn
        THEN LET a1 == change_prev(nb, n, p)
                 a2 == change_nnext(a1, n, n)
                 a3 == change_next(a2, p, n)
             IN  [nb |-> change_nnext(a3, p, nn), ok |-> TRUE]
        ELSE LET b1 == change_next(nb, p, n)
                 b2 == change_nnext(b1, p, nn)
             IN  [nb |-> change_prev(b2, n, p), ok |-> TRUE]

\* NodeRpcServer::leave_topology handled at l: the overlay afterwards and
\* whether the handler ran to its end.
leave_topology(nb, al, l) ==
    LET p == nb[l].prev
        n == nb[l].next
        nn == nb[l].nnext
    IN  IF p = n
        THEN IF ~al[n] THEN [nb |-> nb, ok |-> FALSE]
             ELSE [nb |-> change_prev(change_next(nb, n, n), n, n), ok |-> TRUE]
        ELSE IF p = nn
        THEN LET a1 == change_prev(nb, n, p)
                 a2 == change_nnext(a1, n, n)
                 a3 == change_next(a2, p, n)
             IN  IF ~al[n] THEN [nb |-> nb, ok |-> FALSE]
                 ELSE IF ~al[p] THEN [nb |-> a2, ok |-> FALSE]
                 ELSE [nb |-> change_nnext(a3, p, nn), ok |-> TRUE]
        ELSE LET b1 == change_next(nb, p, n)
                 b2 == change_nnext(b1, p, nn)
                 b3 == change_nnext_of_prev(b2, p, n)
             IN  IF ~al[p] THEN [nb |-> nb, ok |-> FALSE]
                 ELSE IF ~al[b2[p].prev] THEN [nb |-> b2, ok |-> FALSE]
                 ELSE IF ~al[n] THEN [nb |-> b3, ok |-> FALSE]
                 ELSE [nb |-> change_prev(b3, n, p), ok |-> TRUE]

\* Node::leave at l: leave_topology through an RPC to itself; on Ok reset the
\* own triple.
leave(nb, al, l) ==
    IF ~al[l]
    THEN [nb |-> nb, ok |-> FALSE]
    ELSE LET r == leave_topology(nb, al, l)
         IN  IF r.ok
             THEN [nb |-> [r.nb EXCEPT ![l] = NodeNew(l)], ok |-> TRUE]
             ELSE [nb |-> r.nb, ok |-> FALSE]

\* missing_node_mine without the change_nnext sent to prev.
missing_node_mine_no_prev_nnext(nb, al, x, m) ==
    LET next == nb[x].next
        nnext == nb[x].nnext
        prev == nb[x].prev
        nb1 == [nb EXCEPT ![x].next = nnext]
        nb2 == change_prev(nb1, nnext, next)
        nb3 == [nb2 EXCEPT ![x].nnext = change_prev_reply(nb2, nnext)]
    IN  IF ~al[nnext] THEN [nb |-> nb1, ok |-> FALSE]
        ELSE IF prev = next
        THEN [nb |-> [nb3 EXCEPT ![x].prev = nnext], ok |-> TRUE]
        ELSE IF ~al[prev] THEN [nb |-> nb3, ok |-> FALSE]
        ELSE [nb |-> nb3, ok |-> TRUE]

\* NodeRpcServer::missing_node handled at x for missing node m, in the case
\* m = x.next ("its for me"): the overlay afterwards and whether the handler
\* ran to its end.  change_prev is called with the local variable next, the
\* address of the missing node.
missing_node_mine(nb, al, x, m) ==
    LET next == nb[x].next
        nnext == nb[x].nnext
        prev == nb[x].prev
        nb1 == [nb EXCEPT ![x].next = nnext]
        nb2 == change_prev(nb1, nnext, next)
        nb3 == [nb2 EXCEPT ![x].nnext = change_prev_reply(nb2, nnext)]
    IN  IF ~al[nnext] THEN [nb |-> nb1, ok |-> FALSE]
        ELSE IF prev = next
        THEN [nb |-> [nb3 EXCEPT ![x].prev = nnext], ok |-> TRUE]
        ELSE IF ~al[prev] THEN [nb |-> nb3, ok |-> FALSE]
        ELSE [nb |-> change_nnext(nb3, prev, nnext), ok |-> TRUE]

\* NodeRpcServer::missing_node received at x: handled there when m = x.next,
\* else forwarded along next; hops bounds the forwards followed.
RECURSIVE missing_node(_, _, _, _, _)
missing_node(nb, al, x, m, hops) ==
    IF m = nb[x].next
    THEN missing_node_mine(nb, al, x, m)
    ELSE IF hops = 0 \/ ~al[nb[x].next]
    THEN [nb |-> nb, ok |-> FALSE]
    ELSE missing_node(nb, al, nb[x].next, m, hops - 1)

\* Node::repair_topology at x: missing_node through an RPC to itself.  The
\* repairing flag is read and cleared but never set, so it is always false.
repair_topology(nb, al, x, m) ==
    IF ~al[x]
    THEN [nb |-> nb, ok |-> FALSE]
    ELSE missing_node(nb, al, x, m, Cardinality(DOMAIN nb))

IsSingleton(nb, x) == nb[x] = NodeNew(x)

\* Operator command POST /joinother on n with the address of h.
Join(n, h) ==
    LET r == try_join_other(neighbor_info, alive, n, h)
    IN  /\ n # h
        /\ neighbor_info' = r.nb
        /\ hist' = [op |-> "join", who |-> n, via |-> h, ok |-> r.ok,
                    pre |-> neighbor_info,
                    prev_op |-> <<hist.op, hist.who, hist.via>>,
                    count |-> IF hist.count < 3 THEN hist.count + 1 ELSE 3]
        /\ UNCHANGED <<nodes, alive, repairVars, joinVars, nodeVars,
                   resVars, cmhVars>>

\* Operator command POST /leave on l.
Leave(l) ==
    LET r == leave(neighbor_info, alive, l)
    IN  /\ neighbor_info' = r.nb
        /\ hist' = IF hist.op = "join" /\ hist.who = l /\ hist.ok /\ r.ok
                   THEN [hist EXCEPT !.op = "join_leave"]
                   ELSE [op |-> "leave", who |-> l, via |-> l, ok |-> r.ok,
                         pre |-> neighbor_info,
                         prev_op |-> <<hist.op, hist.who, hist.via>>,
                    count |-> IF hist.count < 3 THEN hist.count + 1 ELSE 3]
        /\ UNCHANGED <<nodes, alive, repairVars, joinVars, nodeVars,
                   resVars, cmhVars>>

\* Operator command POST /kill on b: the RPC server of b stops; the state of b
\* stays as it is.
Kill(b) ==
    /\ alive[b]
    /\ alive' = [alive EXCEPT ![b] = FALSE]
    /\ hist' = [op |-> "kill", who |-> b, via |-> b, ok |-> TRUE,
                pre |-> neighbor_info,
                prev_op |-> <<hist.op, hist.who, hist.via>>,
                    count |-> IF hist.count < 3 THEN hist.count + 1 ELSE 3]
    /\ UNCHANGED <<nodes, neighbor_info, repairVars, joinVars, nodeVars,
                   resVars, cmhVars>>

\* A send from x to its next finds no server there: x repairs the overlay.
Repair(x) ==
    LET m == neighbor_info[x].next
        r == repair_topology(neighbor_info, alive, x, m)
    IN  /\ alive[x]
        /\ ~alive[m]
        /\ neighbor_info' = r.nb
        /\ hist' = [op |-> "repair", who |-> x, via |-> m, ok |-> r.ok,
                    pre |-> neighbor_info,
                    prev_op |-> <<hist.op, hist.who, hist.via>>,
                    count |-> IF hist.count < 3 THEN hist.count + 1 ELSE 3]
        /\ UNCHANGED <<nodes, alive, repairVars, joinVars, nodeVars,
                   resVars, cmhVars>>

RingNodes == 1..NumRingNodes

\* Node::new: no RPC client yet, the clock at 0, nobody in permission_queue.
InitNodeRest(S) ==
    /\ clients = [x \in S |-> {}]
    /\ lamport_time = [x \in S |-> 0]
    /\ permission_queue = [x \in S |-> {}]

\* Node::new: repairing is false; no call of repair_topology is in progress.
InitRepairing(S) ==
    /\ repairing = [x \in S |-> FALSE]
    /\ repair_tasks = [x \in S |-> <<>>]

\* No node is joining at the start.
InitJoining(S) == joining = [x \in S |-> <<>>]

\* Node::new: the resource manager's maps are empty.
InitResources(S) ==
    /\ owned_resources = [x \in S |-> <<>>]
    /\ waiting_for = [x \in S |-> <<>>]
    /\ used_resources = [x \in S |-> <<>>]
    /\ blocked_processes = [x \in S |-> {}]
    /\ res_net = {}
    /\ res_hist = [commands |-> 0, pop |-> <<>>, track |-> FALSE, trip |-> <<>>]

\* Node::new: the node is active, waits for nobody and has seen no test; no
\* detection round runs.
InitDetector(S) ==
    /\ is_active = [x \in S |-> TRUE]
    /\ waiting_messages_from = [x \in S |-> {}]
    /\ last_test = [x \in S |-> <<>>]
    /\ wait_status = [x \in S |-> <<>>]
    /\ parent_nodes = [x \in S |-> <<>>]
    /\ probe_count = [x \in S |-> <<>>]
    /\ cmh_stack = <<>>
    /\ cmh_msg = <<>>
    /\ cmh_hist = [started |-> <<>>, declared |-> <<>>, accepted |-> 0,
                   reply |-> "none"]
    /\ cmh_parked = {}

InitRing ==
    /\ nodes = RingNodes
    /\ InitResources(RingNodes)
    /\ InitDetector(RingNodes)
    /\ neighbor_info = [x \in RingNodes |-> NodeNew(x)]
    /\ alive = [x \in RingNodes |-> TRUE]
    /\ InitRepairing(RingNodes)
    /\ InitJoining(RingNodes)
    /\ InitNodeRest(RingNodes)
    /\ hist = [op |-> "none", who |-> 1, via |-> 1, ok |-> TRUE,
               pre |-> neighbor_info, prev_op |-> <<"none", 1, 1>>,
               count |-> 0]

\* Joins by newcomers (nodes in the singleton state) and graceful leaves, one
\* at a time, every server serving.
NextRing ==
    \/ \E n \in nodes, h \in nodes :
          IsSingleton(neighbor_info, n) /\ Join(n, h)
    \/ \E l \in nodes : Leave(l)

SpecRing == InitRing /\ [][NextRing]_vars

\* Most servers that are stopped at the same time in SpecRepair.
MaxDead == 1

AllServing == \A x \in nodes : alive[x]

\* A ring is built by joins and leaves while every server is serving; then
\* servers are killed and the nodes whose next is gone repair the overlay.
NextRepair ==
    \/ \E n \in nodes, h \in nodes :
          AllServing /\ IsSingleton(neighbor_info, n) /\ Join(n, h)
    \/ \E l \in nodes : AllServing /\ Leave(l)
    \/ \E b \in nodes :
          Cardinality({x \in nodes : ~alive[x]}) < MaxDead /\ Kill(b)
    \/ \E x \in nodes : Repair(x)

SpecRepair == InitRing /\ [][NextRepair]_vars

\* Revive joining through the next that b still holds.
Revive_through_next(b) ==
    LET last_known_prev == neighbor_info[b].next
    IN  /\ ~alive[b]
        /\ alive' = [alive EXCEPT ![b] = TRUE]
        /\ \E up \in BOOLEAN :
              LET r == IF last_known_prev # b
                       THEN try_join_other(neighbor_info,
                                           [alive EXCEPT ![b] = up],
                                           b, last_known_prev)
                       ELSE [nb |-> neighbor_info, ok |-> TRUE]
              IN  /\ neighbor_info' = r.nb
                  /\ hist' =
                        IF /\ hist.op = "repair" /\ hist.via = b /\ hist.ok
                           /\ hist.prev_op = <<"kill", b, b>>
                        THEN [hist EXCEPT !.op = "kill_repair_revive",
                                          !.ok = r.ok]
                        ELSE [op |-> "revive", who |-> b,
                              via |-> last_known_prev, ok |-> r.ok,
                              pre |-> neighbor_info,
                              prev_op |-> <<hist.op, hist.who, hist.via>>,
                              count |-> IF hist.count < 3 THEN hist.count + 1
                                        ELSE 3]
        /\ UNCHANGED <<nodes, repairVars, joinVars, nodeVars, resVars, cmhVars>>

\* Operator command POST /revive on b: serve_rpc is spawned again and, when
\* the prev that b still holds is not b itself, b joins through it.  The
\* spawned server may or may not be listening yet (up) while the join runs.
\* A revive that follows the kill of b and the repair by another node keeps
\* the overlay of before the repair in hist.
Revive(b) ==
    LET last_known_prev == neighbor_info[b].prev
    IN  /\ ~alive[b]
        /\ alive' = [alive EXCEPT ![b] = TRUE]
        /\ \E up \in BOOLEAN :
              LET r == IF last_known_prev # b
                       THEN try_join_other(neighbor_info,
                                           [alive EXCEPT ![b] = up],
                                           b, last_known_prev)
                       ELSE [nb |-> neighbor_info, ok |-> TRUE]
              IN  /\ neighbor_info' = r.nb
                  /\ hist' =
                        IF /\ hist.op = "repair" /\ hist.via = b /\ hist.ok
                           /\ hist.prev_op = <<"kill", b, b>>
                        THEN [hist EXCEPT !.op = "kill_repair_revive",
                                          !.ok = r.ok]
                        ELSE [op |-> "revive", who |-> b,
                              via |-> last_known_prev, ok |-> r.ok,
                              pre |-> neighbor_info,
                              prev_op |-> <<hist.op, hist.who, hist.via>>,
                              count |-> IF hist.count < 3 THEN hist.count + 1
                                        ELSE 3]
        /\ UNCHANGED <<nodes, repairVars, joinVars, nodeVars, resVars, cmhVars>>

\* A node has been revived.
Revived == hist.op \in {"revive", "kill_repair_revive"}

\* As NextRepair, up to the first revive of a killed node.
NextRevive ==
    \/ ~Revived /\ NextRepair
    \/ \E b \in nodes : ~Revived /\ Revive(b)

SpecRevive == InitRing /\ [][NextRevive]_vars

\* Calls of repair_topology in progress at one node in SpecRepairConcurrent.
MaxRepairTasks == 2

\* Node::repair_topology at x up to the RPC missing_node: a send from x found
\* no server at its next m.  The call returns at once when repairing is set;
\* else it goes on to missing_node and is in progress until that returns.
\* Nothing here or elsewhere sets repairing.
repair_topology_begin(x) ==
    LET m == neighbor_info[x].next
    IN  /\ alive[x]
        /\ ~alive[m]
        /\ Len(repair_tasks[x]) < MaxRepairTasks
        /\ repair_tasks' = IF repairing[x] THEN repair_tasks
                           ELSE [repair_tasks EXCEPT ![x] = Append(@, m)]
        /\ UNCHANGED <<nodes, neighbor_info, alive, hist, repairing, nodeVars,
                       joinVars, resVars, cmhVars>>

\* Node::repair_topology at x from the return of missing_node: the overlay is
\* what the handlers made of it, and repairing is written false.
repair_topology_end(x, idx) ==
    LET m == repair_tasks[x][idx]
        r == repair_topology(neighbor_info, alive, x, m)
    IN  /\ alive[x]
        /\ neighbor_info' = r.nb
        /\ hist' = [op |-> "repair", who |-> x, via |-> m, ok |-> r.ok,
                    pre |-> neighbor_info,
                    prev_op |-> <<hist.op, hist.who, hist.via>>,
                    count |-> IF hist.count < 3 THEN hist.count + 1 ELSE 3]
        /\ repairing' = [repairing EXCEPT ![x] = FALSE]
        /\ repair_tasks' = [repair_tasks EXCEPT ![x] =
              SubSeq(@, 1, idx - 1) \o SubSeq(@, idx + 1, Len(@))]
        /\ UNCHANGED <<nodes, alive, nodeVars, joinVars, resVars, cmhVars>>

\* As NextRepair, the sends of a node being concurrent tasks: a second send
\* can fail while the repair started by the first is in progress.
NextRepairConcurrent ==
    \/ \E n \in nodes, h \in nodes :
          AllServing /\ IsSingleton(neighbor_info, n) /\ Join(n, h)
    \/ \E l \in nodes : AllServing /\ Leave(l)
    \/ \E b \in nodes :
          Cardinality({x \in nodes : ~alive[x]}) < MaxDead /\ Kill(b)
    \/ \E x \in nodes : repair_topology_begin(x)
    \/ \E x \in nodes : \E idx \in 1..Len(repair_tasks[x]) :
          repair_topology_end(x, idx)

SpecRepairConcurrent == InitRing /\ [][NextRepairConcurrent]_vars

\* The nodes whose join has completed.
Joined == {x \in nodes : joining[x] # <<>> /\ joining[x].pc = "done"}

\* Node::try_join_other at the newcomer n with the address of h, up to the
\* first await of the other_joining handler at h: the handler has copied
\* h's next, nnext and prev and released the lock.
other_joining_read(n, h) ==
    /\ n # h
    /\ alive[h]
    /\ joining[n] = <<>>
    /\ joining' = [joining EXCEPT ![n] =
          [pc |-> "change_prev", h |-> h,
           my_next |-> neighbor_info[h].next,
           my_prev |-> neighbor_info[h].prev,
           tmp |-> [next |-> neighbor_info[h].next,
                    nnext |-> neighbor_info[h].nnext, prev |-> h]]]
    /\ UNCHANGED <<nodes, neighbor_info, alive, hist, repairVars, nodeVars,
                   resVars, cmhVars>>

\* other_joining for the newcomer n: the RPC change_prev(n) to my_next.  A
\* stopped server there makes unwrap panic; the newcomer gets an error and
\* gives up.
other_joining_change_prev(n) ==
    /\ joining[n] # <<>>
    /\ joining[n].pc = "change_prev"
    /\ IF alive[joining[n].my_next]
       THEN /\ neighbor_info' = change_prev(neighbor_info, joining[n].my_next, n)
            /\ joining' = [joining EXCEPT ![n].pc = "change_nnext"]
       ELSE /\ joining' = [joining EXCEPT ![n] = <<>>]
            /\ UNCHANGED neighbor_info
    /\ UNCHANGED <<nodes, alive, hist, repairVars, nodeVars, resVars, cmhVars>>

\* other_joining for the newcomer n: the RPC change_nnext(n) to my_prev.
other_joining_change_nnext(n) ==
    /\ joining[n] # <<>>
    /\ joining[n].pc = "change_nnext"
    /\ IF alive[joining[n].my_prev]
       THEN /\ neighbor_info' = change_nnext(neighbor_info, joining[n].my_prev, n)
            /\ joining' = [joining EXCEPT ![n].pc = "write"]
       ELSE /\ joining' = [joining EXCEPT ![n] = <<>>]
            /\ UNCHANGED neighbor_info
    /\ UNCHANGED <<nodes, alive, hist, repairVars, nodeVars, resVars, cmhVars>>

\* other_joining for the newcomer n from the return of change_nnext to its
\* end: the reply takes h's nnext as it is now, h gets nnext = my_next and
\* next = n.
other_joining_write(n) ==
    LET h == joining[n].h
    IN  /\ joining[n] # <<>>
        /\ joining[n].pc = "write"
        /\ neighbor_info' = [neighbor_info EXCEPT
                                ![h].nnext = joining[n].my_next,
                                ![h].next = n]
        /\ joining' = [joining EXCEPT
                          ![n].pc = "reply",
                          ![n].tmp.nnext = neighbor_info[h].nnext]
        /\ UNCHANGED <<nodes, alive, hist, repairVars, nodeVars, resVars,
                       cmhVars>>

\* try_join_other at n from the reply on: n installs the NeighborInfo it got.
try_join_other_install(n) ==
    /\ joining[n] # <<>>
    /\ joining[n].pc = "reply"
    /\ neighbor_info' = [neighbor_info EXCEPT ![n] = joining[n].tmp]
    /\ joining' = [joining EXCEPT ![n].pc = "done"]
    /\ UNCHANGED <<nodes, alive, hist, repairVars, nodeVars, resVars, cmhVars>>

\* Newcomers join the ring of node 1 through any of its members, and the
\* handlers of joins that overlap in time take their steps in any order.
NextJoinConcurrent ==
    \/ \E n \in nodes \ {1}, h \in {1} \cup Joined : other_joining_read(n, h)
    \/ \E n \in nodes : other_joining_change_prev(n)
    \/ \E n \in nodes : other_joining_change_nnext(n)
    \/ \E n \in nodes : other_joining_write(n)
    \/ \E n \in nodes : try_join_other_install(n)

SpecJoinConcurrent == InitRing /\ [][NextJoinConcurrent]_vars

----------------------------------------------------------------------------
(* Overlay claims *)

\* The overlay is a consistent doubly-linked ring (one ring per group of
\* nodes that joined each other).
RingConsistent(nb) ==
    \A x \in nodes :
        /\ nb[nb[x].next].prev = x
        /\ nb[nb[x].prev].next = x
        /\ nb[x].nnext = nb[nb[x].next].next

\* C1: after any sequence of completed joins and graceful leaves from
\* singleton nodes, every node X has X.next.prev = X, X.prev.next = X and
\* X.nnext = X.next.next; a lone node points to itself three times.
C1_RingConsistent ==
    /\ RingConsistent(neighbor_info)
    /\ \A x \in nodes :
          neighbor_info[x].next = x => IsSingleton(neighbor_info, x)

\* C1 witness: a leave has just completed and left a ring of at least three nodes.
C1_Witness ==
    /\ hist.op = "leave"
    /\ \E x \in nodes : neighbor_info[x].next # neighbor_info[x].prev

\* Since the start (every node a singleton) exactly two operations have run:
\* "b joins via a" and then "c joins via a", both completing.
FormationScenario(a, b, c) ==
    /\ a # b /\ a # c /\ b # c
    /\ hist.count = 2
    /\ hist.prev_op = <<"join", b, a>>
    /\ hist.op = "join" /\ hist.who = c /\ hist.via = a /\ hist.ok

NNextConsistent(nb, S) == \A x \in S : nb[x].nnext = nb[nb[x].next].next

\* C8 as stated: after B joins via A and C joins via A the ring order is
\* A -> B -> C -> A, nnext consistent.
C8_Original ==
    \A a, b, c \in nodes :
        FormationScenario(a, b, c) =>
            /\ neighbor_info[a].next = b
            /\ neighbor_info[b].next = c
            /\ neighbor_info[c].next = a
            /\ NNextConsistent(neighbor_info, {a, b, c})

\* C8 amended: after B joins via A and C joins via A the ring order is
\* A -> C -> B -> A (the later newcomer sits directly after A), and every
\* nnext equals next.next.
C8_FormationOrder ==
    \A a, b, c \in nodes :
        FormationScenario(a, b, c) =>
            /\ neighbor_info[a].next = c
            /\ neighbor_info[c].next = b
            /\ neighbor_info[b].next = a
            /\ NNextConsistent(neighbor_info, {a, b, c})

\* C8 witness: the scenario with A = 1, B = 2, C = 3 has run.
C8_Witness == FormationScenario(1, 2, 3)

\* The last operation was a join via a member h of a consistent ring of at
\* least two nodes.
JoinedRingOfTwoPlus ==
    /\ hist.op = "join" /\ hist.ok
    /\ RingConsistent(hist.pre)
    /\ hist.pre[hist.via].next # hist.via

\* C9: when N joins via H (ring of at least two, old_next = H.next and
\* old_prev = H.prev before): H.next = N, H.nnext = old_next, N.prev = H,
\* N.next = old_next, old_next.prev = N, old_prev.nnext = N, and no other
\* node's next or prev has changed.
C9_JoinSplice ==
    JoinedRingOfTwoPlus =>
        LET n == hist.who
            h == hist.via
            old_next == hist.pre[h].next
            old_prev == hist.pre[h].prev
        IN  /\ neighbor_info[h].next = n
            /\ neighbor_info[h].nnext = old_next
            /\ neighbor_info[n].prev = h
            /\ neighbor_info[n].next = old_next
            /\ neighbor_info[old_next].prev = n
            /\ neighbor_info[old_prev].nnext = n
            /\ \A x \in nodes \ {h, n} :
                  neighbor_info[x].next = hist.pre[x].next
            /\ \A x \in nodes \ {old_next, n} :
                  neighbor_info[x].prev = hist.pre[x].prev

\* C9 witness: a join into a ring of at least three nodes has completed.
C9_Witness ==
    /\ JoinedRingOfTwoPlus
    /\ hist.pre[hist.via].next # hist.pre[hist.via].prev

\* C10: a join of X via any member followed at once by X's graceful leave
\* gives every original node its (next, nnext, prev) back and leaves X a
\* singleton.
C10_JoinLeaveRoundTrip ==
    (hist.op = "join_leave" /\ RingConsistent(hist.pre)) =>
        /\ \A x \in nodes \ {hist.who} : neighbor_info[x] = hist.pre[x]
        /\ IsSingleton(neighbor_info, hist.who)

\* C10 witness: the round trip has run on a ring of at least three nodes.
C10_Witness ==
    /\ hist.op = "join_leave"
    /\ hist.pre[hist.via].next # hist.pre[hist.via].prev

\* The last operation was a completed repair by a of its missing next b in
\* the consistent three-node ring a -> b -> c -> a.
RepairScenario(a, b, c) ==
    /\ a # b /\ a # c /\ b # c
    /\ hist.op = "repair" /\ hist.who = a /\ hist.via = b /\ hist.ok
    /\ RingConsistent(hist.pre)
    /\ hist.pre[a].next = b /\ hist.pre[b].next = c /\ hist.pre[c].next = a

\* What old_next, the next of the contacted member before the last join,
\* reported as its own next in reply to change_prev(N).
ReportedByOldNext ==
    LET old_next == hist.pre[hist.via].next
    IN  change_prev_reply(change_prev(hist.pre, old_next, hist.who), old_next)

\* C30 as stated: the nnext the newcomer N got from the last join is the next
\* that old_next reported in its reply to change_prev(N), also when the
\* contacted member H was a singleton.
C30_Original ==
    (hist.op = "join" /\ hist.ok) =>
        neighbor_info[hist.who].nnext = ReportedByOldNext

\* C30: the nnext handed to the newcomer N is the next that old_next
\* reported when the contacted member H was in a ring of two or more, and N
\* itself when H was a singleton.
C30_JoinNnext ==
    (hist.op = "join" /\ hist.ok) =>
        neighbor_info[hist.who].nnext =
            IF hist.pre[hist.via].next = hist.via
            THEN hist.who
            ELSE ReportedByOldNext

\* A join via a member of a ring of three has taken place.
C30_Witness ==
    /\ hist.op = "join" /\ hist.ok
    /\ hist.pre[hist.via].next # hist.via
    /\ hist.pre[hist.via].nnext # hist.via
    /\ neighbor_info[hist.who].nnext = ReportedByOldNext

\* The last operation was a completed repair by a node of its missing next,
\* on a consistent ring of at least four nodes.
RepairedRingOfFour ==
    /\ hist.op = "repair" /\ hist.ok
    /\ RingConsistent(hist.pre)
    /\ hist.via = hist.pre[hist.who].next
    /\ Cardinality({hist.who, hist.via, hist.pre[hist.who].nnext,
                    hist.pre[hist.pre[hist.who].nnext].next}) = 4

\* C31: after a completed repair of the missing node m on a consistent ring
\* of at least four nodes every surviving node has nnext = next.next, the
\* repairing node's nnext is the next of its new successor and its
\* predecessor's nnext is that new successor; a missing_node(m) that arrives
\* where m is not the next is passed on and changes no triple.
C31_RepairKeepsNnext ==
    /\ RepairedRingOfFour =>
          LET x == hist.who
              s == neighbor_info[x].next
          IN  /\ NNextConsistent(neighbor_info, {y \in nodes : alive[y]})
              /\ s = hist.pre[x].nnext
              /\ neighbor_info[x].nnext = neighbor_info[s].next
              /\ neighbor_info[hist.pre[x].prev].nnext = s
    /\ (hist.op = "repair" /\ hist.via # hist.pre[hist.who].next) =>
          neighbor_info = hist.pre

\* C31 witness: such a repair has completed.
C31_Witness ==
    /\ RepairedRingOfFour
    /\ neighbor_info[hist.who].next = hist.pre[hist.who].nnext

\* The nodes met from x along next in at most hops steps.
RECURSIVE Along(_, _, _)
Along(nb, x, hops) ==
    IF hops = 0 THEN {x} ELSE {x} \cup Along(nb, nb[x].next, hops - 1)

\* C32: when no join is in progress, the overlay is a consistent
\* doubly-linked ring and every node whose join has completed is on the ring
\* of the member it joined through (the ring of node 1).
C32_Original ==
    (\A x \in nodes : joining[x] = <<>> \/ joining[x].pc = "done") =>
        /\ RingConsistent(neighbor_info)
        /\ Joined \subseteq Along(neighbor_info, 1, Cardinality(nodes))

\* The node that handles missing_node(m) sent to x, the request being
\* forwarded along next at most hops times; None when no node on the way has
\* m as its next.
RECURSIVE HandlerOf(_, _, _, _, _)
HandlerOf(nb, al, x, m, hops) ==
    IF m = nb[x].next THEN x
    ELSE IF hops = 0 \/ ~al[nb[x].next] THEN None
    ELSE HandlerOf(nb, al, nb[x].next, m, hops - 1)

\* C34: every round missing_node(m) is handled by a node whose next is m
\* after at most N - 1 forwards, N the number of nodes, also when a second
\* repair for the same missing node was started at the same node before the
\* first one ended.
C34_Original ==
    hist.op = "repair" =>
        HandlerOf(hist.pre, alive, hist.who, hist.via,
                  Cardinality(nodes) - 1) # None

\* B was killed in a consistent ring of three or more nodes, its predecessor
\* repaired the overlay, and B was revived and joined through the predecessor
\* it remembered.
KillRepairRevive ==
    /\ hist.op = "kill_repair_revive" /\ hist.ok
    /\ RingConsistent(hist.pre)
    /\ hist.who = hist.pre[hist.via].prev
    /\ Cardinality(Along(hist.pre, hist.via, Cardinality(nodes))) >= 3

\* C39: after kill of B, repair by its predecessor and revive of B, in a ring
\* of three or more nodes that was consistent, every node has next.prev =
\* self, prev.next = self and nnext = next.next again, and B is on the ring
\* of its predecessor, which has the nodes it had before the kill.
C39_KillRepairRevive ==
    KillRepairRevive =>
        /\ RingConsistent(neighbor_info)
        /\ Along(neighbor_info, hist.who, Cardinality(nodes)) =
              Along(hist.pre, hist.who, Cardinality(nodes))
        /\ neighbor_info[hist.who].next = hist.via

C39_Witness ==
    /\ KillRepairRevive
    /\ Cardinality(Along(hist.pre, hist.via, Cardinality(nodes))) = 4
    /\ neighbor_info[hist.who].next = hist.via

\* C5: in the ring A -> B -> C -> A, after B disappears and A's repair
\* completes, A.next = C, A.nnext = A and C.prev = A.
C5_Original ==
    \A a, b, c \in nodes :
        RepairScenario(a, b, c) =>
            /\ neighbor_info[a].next = c
            /\ neighbor_info[a].nnext = a
            /\ neighbor_info[c].prev = a

\* What the repair does there: A.next = C and A.nnext = A, but C.prev is the
\* missing node B.
C5_CodeBehaviour ==
    \A a, b, c \in nodes :
        RepairScenario(a, b, c) =>
            /\ neighbor_info[a].next = c
            /\ neighbor_info[a].nnext = a
            /\ neighbor_info[c].prev = b

----------------------------------------------------------------------------
(* Resource manager: resources.rs *)

\* Number of node processes and of resource names in the resource specification.
NumResNodes == 3
NumResources == 1
\* Commands (assign_resource, acquire, release) issued in one run.
MaxCommands == 5

ResNodes == 1..NumResNodes
Resources == 1..NumResources

\* HashMap::insert and HashMap::remove.
MapInsert(f, k, v) == (k :> v) @@ f
MapRemove(f, k) == [x \in (DOMAIN f) \ {k} |-> f[x]]

\* The overlay after node 2 joined via 1, 3 via 2, ...: 1 -> 2 -> ... -> n -> 1.
RingOf(n) ==
    [x \in 1..n |-> [next |-> (x % n) + 1,
                     nnext |-> ((x + 1) % n) + 1,
                     prev |-> ((x + n - 2) % n) + 1]]

\* send_resource_msg / handle_message along the ring: a message handed to cur
\* is consumed by the first node of Stop it meets; the others forward it along
\* next (a node with no server ends the chain with an error).
RECURSIVE Route(_, _, _, _, _)
Route(nb, al, cur, Stop, hops) ==
    IF ~al[cur] THEN None
    ELSE IF cur \in Stop THEN cur
    ELSE IF hops = 0 THEN None
    ELSE Route(nb, al, nb[cur].next, Stop, hops - 1)

Owners(r) == {y \in nodes : r \in DOMAIN owned_resources[y]}

\* Node::assign_resource at n: insert a fresh ResourceState for r.
assign_resource(own, n, r) ==
    [own EXCEPT ![n] =
        MapInsert(@, r, [current_user |-> None, request_queue |-> <<>>])]

\* A call of assign_resource(r) on node n.
Assign(n, r) ==
    /\ res_hist.commands < MaxCommands
    /\ owned_resources' = assign_resource(owned_resources, n, r)
    /\ res_hist' = [res_hist EXCEPT !.commands = @ + 1]
    /\ UNCHANGED <<waiting_for, used_resources, blocked_processes, res_net,
                   overlayVars, cmhVars>>

\* handle_message, ResourceQuery(r), at cur for the query of from: the owner
\* replies Owner(cur), the node whose next is the sender replies Unknown, any
\* other node forwards the query along next and hands the reply back.
\* forwards counts the forwarding sends, consulted the nodes that looked r up.
RECURSIVE ResourceQuery(_, _, _, _)
ResourceQuery(cur, from, r, fuel) ==
    IF r \in DOMAIN owned_resources[cur]
    THEN [reply |-> cur, forwards |-> 0, consulted |-> {cur}]
    ELSE IF from = neighbor_info[cur].next \/ fuel = 0
    THEN [reply |-> None, forwards |-> 0, consulted |-> {cur}]
    ELSE LET rest == ResourceQuery(neighbor_info[cur].next, from, r, fuel - 1)
         IN  [reply |-> rest.reply, forwards |-> rest.forwards + 1,
              consulted |-> rest.consulted \cup {cur}]

\* find_resource_owner that looks at the node's own resources only.
find_resource_owner_self_only(n, r) ==
    IF r \in DOMAIN owned_resources[n] THEN n ELSE None

\* Node::find_resource_owner at n: itself when it owns r; else the reply to a
\* ResourceQuery sent along next: Owner(y) from the first owner, Unknown from
\* the node whose next is the sender (handle_message, ResourceQuery).
find_resource_owner(n, r) ==
    IF r \in DOMAIN owned_resources[n] THEN n
    ELSE LET last == {y \in nodes : neighbor_info[y].next = n}
             y == Route(neighbor_info, alive, neighbor_info[n].next,
                        Owners(r) \cup last, Cardinality(nodes))
         IN  IF y # None /\ y \in Owners(r) THEN y ELSE None

\* Node::use_resource at n.
use_resource(n, resource, owner) ==
    /\ waiting_for' = [waiting_for EXCEPT ![n] = MapRemove(@, resource)]
    /\ blocked_processes' = [blocked_processes EXCEPT ![n] = @ \ {owner}]
    /\ used_resources' = [used_resources EXCEPT ![n] = MapInsert(@, resource, owner)]

\* History of one acquire/release round trip (kept when res_hist.track is set):
\* the requester's maps at the moment it calls acquire_resource for a resource
\* that has no current user, an empty queue and no message in flight, and how
\* far the trip has come. Another command for the resource, or another
\* command or grant at the node, during the trip ends the history: the trip
\* recorded is one with no contender and nothing else happening at the node.
Free(r) ==
    /\ \A y \in Owners(r) : owned_resources[y][r] =
                                [current_user |-> None, request_queue |-> <<>>]
    /\ \A msg \in res_net : msg.resource # r

TripAcquire(n, r, owner) ==
    IF ~res_hist.track THEN res_hist.trip
    ELSE IF Free(r)
    THEN [node |-> n, resource |-> r, owner |-> owner, stage |-> "acquire",
          used |-> used_resources[n], waiting |-> waiting_for[n],
          blocked |-> blocked_processes[n]]
    ELSE IF res_hist.trip # <<>>
            /\ (res_hist.trip.resource = r \/ res_hist.trip.node = n)
    THEN <<>>
    ELSE res_hist.trip

TripRelease(n, r) ==
    IF res_hist.trip # <<>>
       /\ (res_hist.trip.resource = r \/ res_hist.trip.node = n)
    THEN IF /\ res_hist.trip.node = n /\ res_hist.trip.resource = r
            /\ res_hist.trip.stage = "acquire"
         THEN [res_hist.trip EXCEPT !.stage = "release"]
         ELSE <<>>
    ELSE res_hist.trip

TripEnd(msg) ==
    IF res_hist.trip # <<>> /\ res_hist.trip.resource = msg.resource
    THEN IF res_hist.trip.node = msg.from /\ res_hist.trip.stage = "release"
         THEN [res_hist.trip EXCEPT !.stage = "done"]
         ELSE <<>>
    ELSE res_hist.trip

TripGranted(u) ==
    IF res_hist.trip # <<>> /\ res_hist.trip.node = u THEN <<>>
    ELSE res_hist.trip

\* A node has a command of its own in flight (one command at a time per node).
Busy(n) == \E msg \in res_net :
    msg.type \in {"Acquire", "AcquireReply", "Release"} /\ msg.from = n

\* Node::acquire_resource at n, up to the send of Acquire: the owner found is
\* kept (the local variable owner) until the reply is handled.
AcquireSend(n, r) ==
    LET owner == find_resource_owner(n, r)
    IN  /\ ~Busy(n)
        /\ res_hist.commands < MaxCommands
        /\ owner # None
        /\ res_net' = res_net \cup
              {[type |-> "Acquire", resource |-> r, from |-> n, owner |-> owner]}
        /\ res_hist' = [res_hist EXCEPT !.commands = @ + 1,
                                        !.trip = TripAcquire(n, r, owner)]
        /\ UNCHANGED <<owned_resources, waiting_for, used_resources,
                       blocked_processes, overlayVars, cmhVars>>

\* process_resource_request putting the requester at the head of the queue.
process_resource_request_front(msg) ==
    LET y == Route(neighbor_info, alive, neighbor_info[msg.from].next,
                   Owners(msg.resource), Cardinality(nodes))
        state == owned_resources[y][msg.resource]
        granted == state.current_user = None
    IN  /\ msg.type = "Acquire"
        /\ y # None
        /\ owned_resources' =
              [owned_resources EXCEPT ![y][msg.resource] =
                  IF granted
                  THEN [@ EXCEPT !.current_user = msg.from]
                  ELSE [@ EXCEPT !.request_queue = <<msg.from>> \o @]]
        /\ res_net' = (res_net \ {msg}) \cup
              {[type |-> "AcquireReply", resource |-> msg.resource,
                from |-> msg.from, owner |-> msg.owner,
                reply |-> IF granted THEN "Granted" ELSE "Queued"]}
        /\ UNCHANGED <<waiting_for, used_resources, blocked_processes,
                       res_hist, overlayVars, cmhVars>>

\* Node::process_resource_request at the first owner of the resource on the
\* way of the Acquire: grant when there is no current user, else push the
\* requester on the queue; the reply goes back to the requester.
process_resource_request(msg) ==
    LET y == Route(neighbor_info, alive, neighbor_info[msg.from].next,
                   Owners(msg.resource), Cardinality(nodes))
        state == owned_resources[y][msg.resource]
        granted == state.current_user = None
    IN  /\ msg.type = "Acquire"
        /\ y # None
        /\ owned_resources' =
              [owned_resources EXCEPT ![y][msg.resource] =
                  IF granted
                  THEN [@ EXCEPT !.current_user = msg.from]
                  ELSE [@ EXCEPT !.request_queue = Append(@, msg.from)]]
        /\ res_net' = (res_net \ {msg}) \cup
              {[type |-> "AcquireReply", resource |-> msg.resource,
                from |-> msg.from, owner |-> msg.owner,
                reply |-> IF granted THEN "Granted" ELSE "Queued"]}
        /\ UNCHANGED <<waiting_for, used_resources, blocked_processes,
                       res_hist, overlayVars, cmhVars>>

\* Node::acquire_resource at the requester, from the reply on.
AcquireReply(msg) ==
    /\ msg.type = "AcquireReply"
    /\ IF msg.reply = "Granted"
       THEN use_resource(msg.from, msg.resource, msg.owner)
       ELSE /\ waiting_for' = [waiting_for EXCEPT ![msg.from] =
                                  MapInsert(@, msg.resource, msg.owner)]
            /\ blocked_processes' = [blocked_processes EXCEPT ![msg.from] =
                                        @ \cup {msg.owner}]
            /\ UNCHANGED used_resources
    /\ res_net' = res_net \ {msg}
    /\ UNCHANGED <<owned_resources, res_hist, overlayVars, cmhVars>>

\* Node::release_resource at n: forget the resource and send Release.
release_resource(n, r) ==
    /\ ~Busy(n)
    /\ res_hist.commands < MaxCommands
    /\ r \in DOMAIN used_resources[n]
    /\ used_resources' = [used_resources EXCEPT ![n] = MapRemove(@, r)]
    /\ res_net' = res_net \cup {[type |-> "Release", resource |-> r, from |-> n]}
    /\ res_hist' = [res_hist EXCEPT !.commands = @ + 1, !.trip = TripRelease(n, r)]
    /\ UNCHANGED <<owned_resources, waiting_for, blocked_processes, overlayVars, cmhVars>>

\* Vec::pop: the last element leaves the queue.
VecPop(q) == [user |-> q[Len(q)], queue |-> SubSeq(q, 1, Len(q) - 1)]

\* process_resource_release that pops the queue and leaves the resource
\* without current user.
process_resource_release_no_holder(msg) ==
    LET Mine == {y \in Owners(msg.resource) :
                    owned_resources[y][msg.resource].current_user = msg.from}
        y == Route(neighbor_info, alive, neighbor_info[msg.from].next, Mine,
                   Cardinality(nodes))
        state == owned_resources[y][msg.resource]
        popped == VecPop(state.request_queue)
    IN  /\ msg.type = "Release"
        /\ y # None
        /\ IF state.request_queue = <<>>
           THEN /\ owned_resources' =
                      [owned_resources EXCEPT ![y][msg.resource].current_user = None]
                /\ res_net' = res_net \ {msg}
                /\ res_hist' = [res_hist EXCEPT !.trip = TripEnd(msg)]
           ELSE /\ owned_resources' =
                      [owned_resources EXCEPT ![y][msg.resource] =
                          [current_user |-> None,
                           request_queue |-> popped.queue]]
                /\ res_net' = (res_net \ {msg}) \cup
                      {[type |-> "Granted", resource |-> msg.resource,
                        user |-> popped.user, from |-> y]}
                /\ res_hist' = [res_hist EXCEPT !.trip = TripEnd(msg), !.pop =
                      [owner |-> y, resource |-> msg.resource,
                       queue |-> state.request_queue, user |-> popped.user]]
        /\ UNCHANGED <<waiting_for, used_resources, blocked_processes, overlayVars, cmhVars>>

\* Node::process_resource_release at the first node on the way of the Release
\* that owns the resource with the sender as current user: the user is
\* cleared, the queue is popped and the popped requester becomes the current
\* user and is sent Granted.
process_resource_release(msg) ==
    LET Mine == {y \in Owners(msg.resource) :
                    owned_resources[y][msg.resource].current_user = msg.from}
        y == Route(neighbor_info, alive, neighbor_info[msg.from].next, Mine,
                   Cardinality(nodes))
        state == owned_resources[y][msg.resource]
        popped == VecPop(state.request_queue)
    IN  /\ msg.type = "Release"
        /\ y # None
        /\ IF state.request_queue = <<>>
           THEN /\ owned_resources' =
                      [owned_resources EXCEPT ![y][msg.resource].current_user = None]
                /\ res_net' = res_net \ {msg}
                /\ res_hist' = [res_hist EXCEPT !.trip = TripEnd(msg)]
           ELSE /\ owned_resources' =
                      [owned_resources EXCEPT ![y][msg.resource] =
                          [current_user |-> popped.user,
                           request_queue |-> popped.queue]]
                /\ res_net' = (res_net \ {msg}) \cup
                      {[type |-> "Granted", resource |-> msg.resource,
                        user |-> popped.user, from |-> y]}
                /\ res_hist' = [res_hist EXCEPT !.trip = TripEnd(msg), !.pop =
                      [owner |-> y, resource |-> msg.resource,
                       queue |-> state.request_queue, user |-> popped.user]]
        /\ UNCHANGED <<waiting_for, used_resources, blocked_processes, overlayVars, cmhVars>>

\* handle_message, Granted, at the first node on the way that is the user.
GrantedArrive(msg) ==
    LET u == Route(neighbor_info, alive, neighbor_info[msg.from].next,
                   {msg.user}, Cardinality(nodes))
    IN  /\ msg.type = "Granted"
        /\ u # None
        /\ use_resource(u, msg.resource, msg.from)
        /\ res_net' = res_net \ {msg}
        /\ res_hist' = [res_hist EXCEPT !.trip = TripGranted(u)]
        /\ UNCHANGED <<owned_resources, overlayVars, cmhVars>>

InitRes ==
    /\ nodes = ResNodes
    /\ neighbor_info = RingOf(NumResNodes)
    /\ alive = [x \in ResNodes |-> TRUE]
    /\ InitRepairing(ResNodes)
    /\ InitJoining(ResNodes)
    /\ InitNodeRest(ResNodes)
    /\ hist = [op |-> "none", who |-> 1, via |-> 1, ok |-> TRUE,
               pre |-> neighbor_info, prev_op |-> <<"none", 1, 1>>,
               count |-> 0]
    /\ InitResources(ResNodes)
    /\ InitDetector(ResNodes)

NextRes ==
    \/ \E n \in nodes, r \in Resources : Assign(n, r)
    \/ \E n \in nodes, r \in Resources : AcquireSend(n, r)
    \/ \E msg \in res_net : process_resource_request(msg)
    \/ \E msg \in res_net : AcquireReply(msg)
    \/ \E n \in nodes, r \in Resources : release_resource(n, r)
    \/ \E msg \in res_net : process_resource_release(msg)
    \/ \E msg \in res_net : GrantedArrive(msg)

SpecRes == InitRes /\ [][NextRes]_vars

\* Graceful leaves in one run of SpecResLeave.
MaxLeaves == 1

\* Operator command POST /leave on l while resources are in use: the overlay
\* is respliced; owned_resources, used_resources and waiting_for of l and of
\* the other nodes stay as they are.
ResLeave(l) ==
    /\ hist.count < MaxLeaves
    /\ Leave(l)

\* The resource manager on a ring that members leave.
NextResLeave ==
    \/ NextRes
    \/ \E l \in nodes : ResLeave(l)

SpecResLeave == InitRes /\ [][NextResLeave]_vars

\* Two resources more than one owner apart are not needed to see a node wait
\* for one resource of an owner while it acquires another: a second
\* specification with one resource more, both assigned at node 1 before the
\* run (two calls of assign_resource), and round trips recorded.
ResourcesPair == 1..(NumResources + 1)

InitResPair ==
    /\ nodes = ResNodes
    /\ neighbor_info = RingOf(NumResNodes)
    /\ alive = [x \in ResNodes |-> TRUE]
    /\ InitRepairing(ResNodes)
    /\ InitJoining(ResNodes)
    /\ InitNodeRest(ResNodes)
    /\ hist = [op |-> "none", who |-> 1, via |-> 1, ok |-> TRUE,
               pre |-> neighbor_info, prev_op |-> <<"none", 1, 1>>,
               count |-> 0]
    /\ owned_resources =
          [x \in ResNodes |->
              IF x = 1
              THEN [r \in ResourcesPair |->
                       [current_user |-> None, request_queue |-> <<>>]]
              ELSE <<>>]
    /\ waiting_for = [x \in ResNodes |-> <<>>]
    /\ used_resources = [x \in ResNodes |-> <<>>]
    /\ blocked_processes = [x \in ResNodes |-> {}]
    /\ res_net = {}
    /\ res_hist = [commands |-> 0, pop |-> <<>>, track |-> TRUE, trip |-> <<>>]
    /\ InitDetector(ResNodes)

NextResPair ==
    \/ \E n \in nodes, r \in ResourcesPair : AcquireSend(n, r)
    \/ \E msg \in res_net : process_resource_request(msg)
    \/ \E msg \in res_net : AcquireReply(msg)
    \/ \E n \in nodes, r \in ResourcesPair : release_resource(n, r)
    \/ \E msg \in res_net : process_resource_release(msg)
    \/ \E msg \in res_net : GrantedArrive(msg)

SpecResPair == InitResPair /\ [][NextResPair]_vars

----------------------------------------------------------------------------
(* The send path: node.rs, rpc_client_manager.rs *)

\* RpcClientManager::get_client at x for addr (get_c hands out the same
\* client together with a call context): the client kept from an earlier
\* call, or a new one when a connection to addr can be made.
get_client(cl, al, x, addr) == addr \in cl[x] \/ al[addr]

\* The clients the nodes hold after the joins that built RingOf(n) (node x
\* joined via x - 1): the newcomer has one for the member it contacted, the
\* contacted member for its next and its prev of that time.
RingClients(n) ==
    [x \in 1..n |->
        (IF x >= 2 THEN {x - 1} ELSE {}) \cup
        (IF x < n THEN {1, IF x >= 2 THEN x - 1 ELSE 1} ELSE {})]

\* Node::send_resource_msg / Node::send_cmh_msg at x, one hop to its next:
\* with a client the message is dispatched and an error of the call is
\* answered by Error; without one repair_topology(next) is called.  What the
\* receiver does with the message is left out here.
send_msg(x) ==
    LET next == neighbor_info[x].next
        r == repair_topology(neighbor_info, alive, x, next)
        h(op, ok) == [op |-> op, who |-> x, via |-> next, ok |-> ok,
                      pre |-> neighbor_info,
                      prev_op |-> <<hist.op, hist.who, hist.via>>,
                      count |-> IF hist.count < 3 THEN hist.count + 1 ELSE 3]
    IN  /\ IF get_client(clients, alive, x, next)
           THEN IF alive[next]
                THEN /\ clients' = [clients EXCEPT ![x] = @ \cup {next}]
                     /\ hist' = h("send", TRUE)
                     /\ UNCHANGED neighbor_info
                ELSE /\ hist' = h("send_error", FALSE)
                     /\ UNCHANGED <<clients, neighbor_info>>
           ELSE /\ neighbor_info' = r.nb
                /\ hist' = h("repair", r.ok)
                /\ UNCHANGED clients
        /\ UNCHANGED <<nodes, alive, repairVars, joinVars, lamport_time, permission_queue,
                       resVars, cmhVars>>

InitSend ==
    /\ nodes = RingNodes
    /\ neighbor_info = RingOf(NumRingNodes)
    /\ alive = [x \in RingNodes |-> TRUE]
    /\ hist = [op |-> "none", who |-> 1, via |-> 1, ok |-> TRUE,
               pre |-> neighbor_info, prev_op |-> <<"none", 1, 1>>,
               count |-> 0]
    /\ InitRepairing(RingNodes)
    /\ InitJoining(RingNodes)
    /\ clients = RingClients(NumRingNodes)
    /\ lamport_time = [x \in RingNodes |-> 0]
    /\ permission_queue = [x \in RingNodes |-> {}]
    /\ InitResources(RingNodes)
    /\ InitDetector(RingNodes)

\* Ordinary sends on the ring while servers are stopped.
NextSend ==
    \/ \E x \in nodes : send_msg(x)
    \/ \E b \in nodes :
          Cardinality({x \in nodes : ~alive[x]}) < MaxDead /\ Kill(b)

SpecSend == InitSend /\ [][NextSend]_vars

\* Largest clock value reached in SpecClock.
MaxClock == 8

\* Node::increment_lamport at x.
increment_lamport(lt, x) == [lt EXCEPT ![x] = @ + 1]

\* Node::send_resource_msg / Node::send_cmh_msg at x with the handler
\* NodeRpcServer::handle_resource_msg / handle_cmh_msg at its next: the
\* sender increments its clock before the delay and again before the call;
\* the message carries no clock value and the handler at the receiver does
\* not touch lamport_time (update_clock has no caller).
clock_send(x) ==
    /\ lamport_time[x] + 2 <= MaxClock
    /\ lamport_time' = increment_lamport(increment_lamport(lamport_time, x), x)
    /\ UNCHANGED <<nodes, neighbor_info, alive, hist, repairVars, joinVars, clients,
                   permission_queue, resVars, cmhVars>>

InitClock ==
    /\ nodes = ResNodes
    /\ neighbor_info = RingOf(NumResNodes)
    /\ alive = [x \in ResNodes |-> TRUE]
    /\ hist = [op |-> "none", who |-> 1, via |-> 1, ok |-> TRUE,
               pre |-> neighbor_info, prev_op |-> <<"none", 1, 1>>,
               count |-> 0]
    /\ InitRepairing(ResNodes)
    /\ InitJoining(ResNodes)
    /\ InitNodeRest(ResNodes)
    /\ InitResources(ResNodes)
    /\ InitDetector(ResNodes)

NextClock == \E x \in nodes : clock_send(x)

SpecClock == InitClock /\ [][NextClock]_vars

----------------------------------------------------------------------------
(* Resource claims *)

\* C4: FIFO granting: a requester whose Acquire reached the owner earlier is
\* made current holder before one whose Acquire reached it later; so the
\* requester taken from the queue by a release arrived before every other
\* requester still in the queue.
C4_Original ==
    res_hist.pop # <<>> =>
        LET q == res_hist.pop.queue
        IN  \A i \in 1..Len(q) :
                q[i] # res_hist.pop.user =>
                    \E j \in 1..(i - 1) : q[j] = res_hist.pop.user

\* What the owner does: the requester that arrived last is granted first.
C4_CodeBehaviour ==
    res_hist.pop # <<>> =>
        res_hist.pop.user = res_hist.pop.queue[Len(res_hist.pop.queue)]

Holders(r) ==
    {y \in Owners(r) : owned_resources[y][r].current_user # None}

\* C6: for every resource name r at most one node has an entry for r whose
\* current holder is not none.
C6_Original == \A r \in Resources : Cardinality(Holders(r)) <= 1

\* C7: with no resource message in flight, r is a key of R.used_resources
\* if and only if the current holder recorded for r at r's owner is R.
C7_Original ==
    res_net = {} =>
        \A r \in Resources, R \in nodes :
            /\ \A o \in Owners(r) :
                  (r \in DOMAIN used_resources[R])
                      <=> (owned_resources[o][r].current_user = R)
            /\ (Owners(r) = {}) => (r \notin DOMAIN used_resources[R])

\* The first owner of the resource on the way of a message sent by from.
OwnerOnWay(from, r) ==
    Route(neighbor_info, alive, neighbor_info[from].next, Owners(r),
          Cardinality(nodes))

\* C15: when an Acquire(r) of requester F is taken up, it is by the first
\* owner of r after F on the ring and no other node changes its state; with
\* no current holder F becomes the holder, the queue stays and the reply is
\* Granted; otherwise the holder stays, F is appended at the tail of the
\* queue and the reply is Queued.
C15_AcquireAtOwner ==
    [][\A msg \in res_net :
          (msg.type = "Acquire" /\ msg \notin res_net') =>
             LET y == OwnerOnWay(msg.from, msg.resource)
                 old == owned_resources[y][msg.resource]
                 new == owned_resources'[y][msg.resource]
             IN  /\ y \in Owners(msg.resource)
                 /\ \A z \in nodes \ {y} : owned_resources'[z] = owned_resources[z]
                 /\ DOMAIN owned_resources'[y] = DOMAIN owned_resources[y]
                 /\ \A r \in DOMAIN owned_resources[y] \ {msg.resource} :
                       owned_resources'[y][r] = owned_resources[y][r]
                 /\ UNCHANGED <<waiting_for, used_resources, blocked_processes>>
                 /\ \E reply \in res_net' \ res_net :
                       /\ res_net' = (res_net \ {msg}) \cup {reply}
                       /\ reply.type = "AcquireReply"
                       /\ reply.from = msg.from
                       /\ reply.resource = msg.resource
                       /\ IF old.current_user = None
                          THEN /\ new.current_user = msg.from
                               /\ new.request_queue = old.request_queue
                               /\ reply.reply = "Granted"
                          ELSE /\ new.current_user = old.current_user
                               /\ new.request_queue =
                                     Append(old.request_queue, msg.from)
                               /\ reply.reply = "Queued"]_vars

\* Both cases happened: a holder, two queued requesters, a Queued reply.
C15_Witness ==
    \E y \in nodes, msg \in res_net :
        /\ msg.type = "AcquireReply" /\ msg.reply = "Queued"
        /\ msg.resource \in DOMAIN owned_resources[y]
        /\ owned_resources[y][msg.resource].current_user # None
        /\ Len(owned_resources[y][msg.resource].request_queue) = 2
        /\ owned_resources[y][msg.resource].request_queue[2] = msg.from

\* q without its element at position idx.
RemoveAt(q, idx) == SubSeq(q, 1, idx - 1) \o SubSeq(q, idx + 1, Len(q))

\* C16: release_resource leaves the releasing node without an entry for r;
\* when the Release is taken up by the owner whose current user is the
\* sender and the queue is not empty, one queued requester H leaves the
\* queue and becomes current user, Granted(r, H) is sent and the ring takes
\* it to H; when it is taken up there, H.used_resources[r] is the owner and
\* H.waiting_for has no entry for r.
C16_ReleaseGrantsQueued ==
    [][/\ \A msg \in res_net' \ res_net :
             msg.type = "Release" =>
                msg.resource \notin DOMAIN used_resources'[msg.from]
       /\ \A msg \in res_net :
             (msg.type = "Release" /\ msg \notin res_net') =>
                LET r == msg.resource
                    Mine == {y \in Owners(r) :
                                owned_resources[y][r].current_user = msg.from}
                    y == Route(neighbor_info, alive, neighbor_info[msg.from].next,
                               Mine, Cardinality(nodes))
                    old == owned_resources[y][r]
                    new == owned_resources'[y][r]
                IN  /\ y \in Mine
                    /\ old.request_queue # <<>> =>
                          \E g \in res_net' :
                             /\ g.type = "Granted" /\ g.resource = r /\ g.from = y
                             /\ new.current_user = g.user
                             /\ \E idx \in 1..Len(old.request_queue) :
                                   /\ old.request_queue[idx] = g.user
                                   /\ new.request_queue =
                                         RemoveAt(old.request_queue, idx)
                             /\ Route(neighbor_info, alive, neighbor_info[y].next,
                                      {g.user}, Cardinality(nodes)) = g.user
                    /\ old.request_queue = <<>> => new.current_user = None
       /\ \A g \in res_net :
             (g.type = "Granted" /\ g \notin res_net') =>
                /\ g.resource \in DOMAIN used_resources'[g.user]
                /\ used_resources'[g.user][g.resource] = g.from
                /\ g.resource \notin DOMAIN waiting_for'[g.user]]_vars

\* The scenario has run to its end: the requester taken from the queue uses
\* the resource of the owner and the owner records it as current user.
C16_Witness ==
    /\ res_hist.pop # <<>>
    /\ res_net = {}
    /\ LET pop == res_hist.pop
       IN  /\ pop.resource \in DOMAIN used_resources[pop.user]
           /\ used_resources[pop.user][pop.resource] = pop.owner
           /\ pop.resource \notin DOMAIN waiting_for[pop.user]
           /\ owned_resources[pop.owner][pop.resource].current_user = pop.user
           /\ \A n \in nodes \ {pop.user} : used_resources[n] = <<>>

\* C17: when the round trip of a node that acquired a free resource and
\* released it, nobody else asking for the resource meanwhile, ends at the
\* owner, the owner's entry has no current user and an empty queue, and the
\* node's used_resources, waiting_for and blocked_processes are what they
\* were when it called acquire_resource.
C17_Original ==
    [][(/\ res_hist.trip # <<>> /\ res_hist.trip.stage = "release"
        /\ res_hist'.trip # <<>> /\ res_hist'.trip.stage = "done") =>
          LET trip == res_hist.trip
          IN  /\ owned_resources'[trip.owner][trip.resource] =
                    [current_user |-> None, request_queue |-> <<>>]
              /\ used_resources'[trip.node] = trip.used
              /\ waiting_for'[trip.node] = trip.waiting
              /\ blocked_processes'[trip.node] = trip.blocked]_vars

\* The query find_resource_owner(r) at n sends to its next when n does not
\* own r.
QueryOf(n, r) ==
    ResourceQuery(neighbor_info[n].next, n, r, Cardinality(nodes))

\* C18: on the ring, find_resource_owner(r) at any member returns a node that
\* owns r when some member owns r and nothing when none does; the query is
\* sent at most N-1 times (the requester's send and the forwards), and when
\* the answer is Unknown every member has looked r up.
C18_OwnerDiscovery ==
    \A n \in nodes, r \in Resources :
        LET found == find_resource_owner(n, r)
            q == QueryOf(n, r)
        IN  /\ Owners(r) # {} => found \in Owners(r)
            /\ Owners(r) = {} => found = None
            /\ r \notin DOMAIN owned_resources[n] =>
                  /\ q.reply = found
                  /\ q.forwards + 1 <= Cardinality(nodes) - 1
                  /\ q.reply = None => q.consulted \cup {n} = nodes

\* A member that does not own r finds the owner through a forwarded query,
\* while the query of another member is answered at once.
C18_Witness ==
    \E n \in nodes, x \in nodes, r \in Resources :
        /\ r \notin DOMAIN owned_resources[n]
        /\ r \notin DOMAIN owned_resources[x]
        /\ QueryOf(n, r).forwards >= 1
        /\ QueryOf(x, r).forwards = 0
        /\ find_resource_owner(n, r) \in Owners(r)
        /\ find_resource_owner(x, r) = find_resource_owner(n, r)

\* C20: at most one repair initiated by a node is in progress at any time:
\* a send failure seen at the node while it repairs starts no second
\* missing_node round.
C20_Original ==
    \A x \in nodes : Len(repair_tasks[x]) <= 1

\* C21: whenever a send of a node x to its next fails (no server is
\* serving at next), x initiates the repair of next.
C21_Original ==
    [][\A x \in nodes :
          (send_msg(x) /\ ~alive[neighbor_info[x].next]) =>
              /\ hist'.op = "repair"
              /\ hist'.who = x
              /\ hist'.via = neighbor_info[x].next]_vars

\* C26: no clock ever decreases, a send increments the sender's clock, and
\* after the receiver (the sender's next) has handled the message its clock
\* is greater than the sender's clock at the time of sending.
C26_Original ==
    [][\A x \in nodes :
          clock_send(x) =>
              /\ \A n \in nodes : lamport_time'[n] >= lamport_time[n]
              /\ lamport_time'[x] > lamport_time[x]
              /\ lamport_time'[neighbor_info[x].next] > lamport_time[x] + 1]_vars

\* The node that consumes the resource message msg in flight: the first
\* owner of the resource for Acquire, the first owner that has the sender as
\* current user for Release, the user for Granted; None when the message
\* meets no such node in a traversal of the ring.
Consumer(msg) ==
    LET Stop == CASE msg.type = "Acquire" -> Owners(msg.resource)
                  [] msg.type = "Release" ->
                        {y \in Owners(msg.resource) :
                            owned_resources[y][msg.resource].current_user = msg.from}
                  [] msg.type = "Granted" -> {msg.user}
    IN  Route(neighbor_info, alive, neighbor_info[msg.from].next, Stop,
              Cardinality(nodes))

\* C35: every Acquire, Release and Granted in flight is consumed within one
\* traversal of the ring, also a Release for a resource whose owner has left
\* and a Granted for a requester that has left.
C35_Original ==
    \A msg \in res_net :
        msg.type \in {"Acquire", "Release", "Granted"} => Consumer(msg) # None

\* C38: with no resource message in flight, blocked_processes of every node
\* is the set of the owners that occur as values of its waiting_for; a grant
\* for one resource of an owner does not take the owner out of
\* blocked_processes while the node is queued for another resource of it.
C38_Original ==
    res_net = {} =>
        \A n \in nodes :
            blocked_processes[n] =
                {waiting_for[n][r] : r \in DOMAIN waiting_for[n]}

\* C19: no requester occurs twice in the queue of an owned resource.
C19_Original ==
    \A y \in nodes : \A r \in DOMAIN owned_resources[y] :
        LET q == owned_resources[y][r].request_queue
        IN  \A a, b \in 1..Len(q) : q[a] = q[b] => a = b

----------------------------------------------------------------------------
(* CMH deadlock detector: cmh_funcs.rs *)

\* Number of node processes in the detector specification.
NumCmhNodes == 3
\* Largest number of waits-on edges in the initial waits-on relation.
MaxEdges == 3
\* Detection rounds started in one run.
MaxRounds == 2
\* Commands set aside while another one runs.
MaxParked == 1
CmhNodes == 1..NumCmhNodes

\* HashMap::get(..).unwrap_or(d).
MapGet(f, k, d) == IF k \in DOMAIN f THEN f[k] ELSE d

\* "*n -= 1" on a u32.  A u32 from 2^31 on is written as the negative number
\* congruent to it modulo 2^32, so that 0 - 1 is -1, which stands for
\* u32::MAX.
u32_dec(c) == c - 1

\* send_cmh_msg / handle_cmh_message along the ring: the message goes from
\* node to node along next until it is at the node it names.
Deliver(sender, dest) ==
    Route(neighbor_info, alive, neighbor_info[sender].next, {dest},
          Cardinality(nodes))

Frame(kind, at, k, m, rest) ==
    [kind |-> kind, at |-> at, k |-> k, m |-> m, rest |-> rest, count |-> 0]

Top == cmh_stack[Len(cmh_stack)]
Pop == SubSeq(cmh_stack, 1, Len(cmh_stack) - 1)

\* start_detection without the test of is_active.
start_detection_unchecked(n) ==
    LET test_num == MapGet(last_test[n], n, 0) + 1
    IN  /\ cmh_stack = <<>>
        /\ cmh_msg = <<>>
        /\ Len(cmh_hist.started) < MaxRounds
        /\ last_test' = [last_test EXCEPT ![n] = MapInsert(@, n, test_num)]
        /\ wait_status' = [wait_status EXCEPT ![n] = MapInsert(@, n, TRUE)]
        /\ cmh_stack' = <<Frame("start_detection", n, n, test_num,
                                waiting_messages_from[n])>>
        /\ cmh_hist' = [cmh_hist EXCEPT !.started = Append(@, n),
                                        !.accepted = 0,
                                        !.reply = "Success"]
        /\ UNCHANGED <<is_active, waiting_messages_from, parent_nodes,
                       probe_count, cmh_msg, cmh_parked, overlayVars, resVars>>

\* Node::start_detection at n, up to the loop over waiting_messages_from.
\* An active node answers Error and nothing changes.
start_detection(n) ==
    LET test_num == MapGet(last_test[n], n, 0) + 1
    IN  /\ cmh_stack = <<>>
        /\ cmh_msg = <<>>
        /\ Len(cmh_hist.started) < MaxRounds
        /\ IF is_active[n]
           THEN /\ cmh_hist' = [cmh_hist EXCEPT !.reply = "Error"]
                /\ UNCHANGED <<last_test, wait_status, cmh_stack>>
           ELSE /\ last_test' = [last_test EXCEPT ![n] = MapInsert(@, n, test_num)]
                /\ wait_status' = [wait_status EXCEPT ![n] = MapInsert(@, n, TRUE)]
                /\ cmh_stack' = <<Frame("start_detection", n, n, test_num,
                                        waiting_messages_from[n])>>
                /\ cmh_hist' = [cmh_hist EXCEPT !.started = Append(@, n),
                                                !.accepted = 0,
                                                !.reply = "Success"]
        /\ UNCHANGED <<is_active, waiting_messages_from, parent_nodes,
                       probe_count, cmh_msg, cmh_parked, overlayVars, resVars>>

\* SendProbe with the receiver written into the sender field j as well.
SendProbe_sender_owner ==
    /\ cmh_stack # <<>>
    /\ cmh_msg = <<>>
    /\ Top.kind \in {"start_detection", "handle_probe"}
    /\ \E owner \in Top.rest :
          /\ probe_count' = [probe_count EXCEPT ![Top.at] =
                                MapInsert(@, Top.k, Top.count + 1)]
          /\ cmh_msg' = [type |-> "ProbeRequest", k |-> Top.k, m |-> Top.m,
                         j |-> owner, i |-> owner]
          /\ cmh_stack' = [cmh_stack EXCEPT ![Len(cmh_stack)] =
                              [@ EXCEPT !.rest = @ \ {owner},
                                        !.count = @ + 1]]
    /\ UNCHANGED <<is_active, waiting_messages_from, last_test, wait_status,
                   parent_nodes, cmh_hist, cmh_parked, overlayVars, resVars>>

\* One turn of the loop "for owner in waiting_for" of start_detection or
\* handle_probe: count += 1, probe_count[k] = count, the probe is sent.  The
\* order in which a HashSet yields its elements is not fixed.
SendProbe ==
    /\ cmh_stack # <<>>
    /\ cmh_msg = <<>>
    /\ Top.kind \in {"start_detection", "handle_probe"}
    /\ \E owner \in Top.rest :
          /\ probe_count' = [probe_count EXCEPT ![Top.at] =
                                MapInsert(@, Top.k, Top.count + 1)]
          /\ cmh_msg' = [type |-> "ProbeRequest", k |-> Top.k, m |-> Top.m,
                         j |-> Top.at, i |-> owner]
          /\ cmh_stack' = [cmh_stack EXCEPT ![Len(cmh_stack)] =
                              [@ EXCEPT !.rest = @ \ {owner},
                                        !.count = @ + 1]]
    /\ UNCHANGED <<is_active, waiting_messages_from, last_test, wait_status,
                   parent_nodes, cmh_hist, cmh_parked, overlayVars, resVars>>

\* Return without the write of wait_status.
Return_keep_wait_status ==
    /\ cmh_stack # <<>>
    /\ cmh_msg = <<>>
    /\ Top.rest = {}
    /\ probe_count' =
          IF Top.kind = "handle_probe"
          THEN [probe_count EXCEPT ![Top.at] = MapInsert(@, Top.k, Top.count)]
          ELSE probe_count
    /\ wait_status' = wait_status
    /\ cmh_stack' = Pop
    /\ UNCHANGED <<is_active, waiting_messages_from, last_test, parent_nodes,
                   cmh_msg, cmh_hist, cmh_parked, overlayVars, resVars>>

\* The handler on top of the stack runs to its end after its last send has
\* returned: handle_probe writes count to probe_count[k], the answering
\* handle_probe_answer sets wait_status[k] to false.
Return ==
    /\ cmh_stack # <<>>
    /\ cmh_msg = <<>>
    /\ Top.rest = {}
    /\ probe_count' =
          IF Top.kind = "handle_probe"
          THEN [probe_count EXCEPT ![Top.at] = MapInsert(@, Top.k, Top.count)]
          ELSE probe_count
    /\ wait_status' =
          IF Top.kind = "handle_probe_answer"
          THEN [wait_status EXCEPT ![Top.at] = MapInsert(@, Top.k, FALSE)]
          ELSE wait_status
    /\ cmh_stack' = Pop
    /\ UNCHANGED <<is_active, waiting_messages_from, last_test, parent_nodes,
                   cmh_msg, cmh_hist, cmh_parked, overlayVars, resVars>>

\* handle_probe_from recording the parent under the sender's address.
handle_probe_from_parent_by_sender(test_num) ==
    LET probe == cmh_msg
        self == Deliver(probe.j, probe.i)
    IN  /\ cmh_msg # <<>>
        /\ cmh_msg.type = "ProbeRequest"
        /\ self # None
        /\ IF is_active[self]
           THEN /\ cmh_msg' = <<>>
                /\ UNCHANGED <<last_test, wait_status, parent_nodes, cmh_stack>>
           ELSE IF probe.m > test_num
           THEN /\ last_test' = [last_test EXCEPT ![self] =
                                    MapInsert(@, probe.k, probe.m)]
                /\ wait_status' = [wait_status EXCEPT ![self] =
                                      MapInsert(@, probe.k, TRUE)]
                /\ parent_nodes' = [parent_nodes EXCEPT ![self] =
                                       MapInsert(@, probe.j, probe.j)]
                /\ cmh_stack' = Append(cmh_stack,
                                    Frame("handle_probe", self, probe.k, probe.m,
                                          waiting_messages_from[self]))
                /\ cmh_msg' = <<>>
           ELSE IF MapGet(wait_status[self], probe.k, FALSE) /\ test_num = probe.m
           THEN /\ cmh_msg' = [type |-> "ProbeAnswer", k |-> probe.k,
                               m |-> probe.m, i |-> probe.i, j |-> probe.j]
                /\ UNCHANGED <<last_test, wait_status, parent_nodes, cmh_stack>>
           ELSE /\ cmh_msg' = <<>>
                /\ UNCHANGED <<last_test, wait_status, parent_nodes, cmh_stack>>
        /\ UNCHANGED <<is_active, waiting_messages_from, probe_count, cmh_hist,
                       cmh_parked, overlayVars, resVars>>

\* Node::handle_probe at the node the probe names, up to its first send,
\* with test_num the value it read from last_test.
handle_probe_from(test_num) ==
    LET probe == cmh_msg
        self == Deliver(probe.j, probe.i)
    IN  /\ cmh_msg # <<>>
        /\ cmh_msg.type = "ProbeRequest"
        /\ self # None
        /\ IF is_active[self]
           THEN /\ cmh_msg' = <<>>
                /\ UNCHANGED <<last_test, wait_status, parent_nodes, cmh_stack>>
           ELSE IF probe.m > test_num
           THEN /\ last_test' = [last_test EXCEPT ![self] =
                                    MapInsert(@, probe.k, probe.m)]
                /\ wait_status' = [wait_status EXCEPT ![self] =
                                      MapInsert(@, probe.k, TRUE)]
                /\ parent_nodes' = [parent_nodes EXCEPT ![self] =
                                       MapInsert(@, probe.k, probe.j)]
                /\ cmh_stack' = Append(cmh_stack,
                                    Frame("handle_probe", self, probe.k, probe.m,
                                          waiting_messages_from[self]))
                /\ cmh_msg' = <<>>
           ELSE IF MapGet(wait_status[self], probe.k, FALSE) /\ test_num = probe.m
           THEN /\ cmh_msg' = [type |-> "ProbeAnswer", k |-> probe.k,
                               m |-> probe.m, i |-> probe.i, j |-> probe.j]
                /\ UNCHANGED <<last_test, wait_status, parent_nodes, cmh_stack>>
           ELSE /\ cmh_msg' = <<>>
                /\ UNCHANGED <<last_test, wait_status, parent_nodes, cmh_stack>>
        /\ UNCHANGED <<is_active, waiting_messages_from, probe_count, cmh_hist,
                       cmh_parked, overlayVars, resVars>>

\* Node::handle_probe with nothing else running on the node between its read
\* of last_test and its writes.
handle_probe ==
    /\ cmh_msg # <<>>
    /\ "read" \notin DOMAIN cmh_msg
    /\ handle_probe_from(MapGet(last_test[Deliver(cmh_msg.j, cmh_msg.i)],
                                cmh_msg.k, 0))

\* Node::handle_probe up to the end of its read of last_test (the read lock
\* is released): an active node ignores the probe, at a passive one the
\* handler now holds test_num.
handle_probe_read ==
    LET self == Deliver(cmh_msg.j, cmh_msg.i)
    IN  /\ cmh_msg # <<>>
        /\ cmh_msg.type = "ProbeRequest"
        /\ "read" \notin DOMAIN cmh_msg
        /\ self # None
        /\ cmh_msg' =
              IF is_active[self]
              THEN <<>>
              ELSE [type |-> "ProbeRequest", k |-> cmh_msg.k, m |-> cmh_msg.m,
                    j |-> cmh_msg.j, i |-> cmh_msg.i,
                    read |-> MapGet(last_test[self], cmh_msg.k, 0)]
        /\ UNCHANGED <<is_active, waiting_messages_from, last_test, wait_status,
                       parent_nodes, probe_count, cmh_stack, cmh_hist,
                       cmh_parked, overlayVars, resVars>>

\* Node::handle_probe from the comparison with the test_num it read on.
handle_probe_rest ==
    /\ cmh_msg # <<>>
    /\ "read" \in DOMAIN cmh_msg
    /\ handle_probe_from(cmh_msg.read)

\* The runtime runs another command: the running one is set aside at an
\* await or between two lock sections, and one set aside before (or none:
\* a command that is yet to start) runs on.
Idle == [stack |-> <<>>, msg |-> <<>>]

Switch(t) ==
    LET running == [stack |-> cmh_stack, msg |-> cmh_msg]
    IN  /\ running # Idle
        /\ t \in cmh_parked \cup {Idle}
        /\ cmh_parked' = (cmh_parked \ {t}) \cup {running}
        /\ Cardinality(cmh_parked') <= MaxParked
        /\ cmh_stack' = t.stack
        /\ cmh_msg' = t.msg
        /\ UNCHANGED <<is_active, waiting_messages_from, last_test, wait_status,
                       parent_nodes, probe_count, cmh_hist, overlayVars, resVars>>

\* History: one more answer of the running round accepted by its initiator.
Accepted(self, k) ==
    IF self = k THEN [cmh_hist EXCEPT !.accepted = @ + 1] ELSE cmh_hist

\* is_init of handle_probe_answer, whose parameter i is the fourth field of
\* the ProbeAnswer, the node the answer is for.
is_initiator_any(k, i, self) == i = self

is_initiator(k, i, self) == k = self /\ i = self

\* handle_probe_answer without the test of is_active.
handle_probe_answer_no_active_test ==
    LET k == cmh_msg.k
        m == cmh_msg.m
        i == cmh_msg.j
        self == Deliver(cmh_msg.i, cmh_msg.j)
        should_process == /\ m = MapGet(last_test[self], k, 0)
                          /\ MapGet(wait_status[self], k, FALSE)
        skip == \/ ~should_process
                \/ k \notin DOMAIN probe_count[self]
        n == u32_dec(probe_count[self][k])
    IN  /\ cmh_msg # <<>>
        /\ cmh_msg.type = "ProbeAnswer"
        /\ self # None
        /\ \/ \* nothing to do; or the subtraction overflows and panics (a
              \* build with overflow checks)
              /\ skip \/ probe_count[self][k] = 0
              /\ cmh_msg' = <<>>
              /\ UNCHANGED <<wait_status, probe_count, cmh_stack, cmh_hist>>
           \/ /\ ~skip
              /\ probe_count' = [probe_count EXCEPT ![self] = MapInsert(@, k, n)]
              /\ IF n # 0
                 THEN /\ cmh_msg' = <<>>
                      /\ cmh_hist' = Accepted(self, k)
                      /\ UNCHANGED <<wait_status, cmh_stack>>
                 ELSE IF is_initiator(k, i, self)
                 THEN /\ cmh_hist' = [Accepted(self, k) EXCEPT !.declared =
                             Append(@, [at |-> self, k |-> k, m |-> m,
                                        r |-> cmh_msg.i, i |-> i,
                                        round |-> Len(cmh_hist.started),
                                        accepted |-> Accepted(self, k).accepted,
                                        sent |-> cmh_stack[1].count,
                                        unsent |-> Cardinality(cmh_stack[1].rest)])]
                      /\ wait_status' = [wait_status EXCEPT ![self] =
                                            MapInsert(@, k, FALSE)]
                      /\ cmh_msg' = <<>>
                      /\ UNCHANGED cmh_stack
                 ELSE IF k \in DOMAIN parent_nodes[self]
                 THEN /\ cmh_msg' = [type |-> "ProbeAnswer", k |-> k, m |-> m,
                                     i |-> i, j |-> parent_nodes[self][k]]
                      /\ cmh_stack' = Append(cmh_stack,
                             Frame("handle_probe_answer", self, k, m, {}))
                      /\ cmh_hist' = Accepted(self, k)
                      /\ UNCHANGED wait_status
                 ELSE /\ wait_status' = [wait_status EXCEPT ![self] =
                                            MapInsert(@, k, FALSE)]
                      /\ cmh_msg' = <<>>
                      /\ cmh_hist' = Accepted(self, k)
                      /\ UNCHANGED cmh_stack
        /\ UNCHANGED <<is_active, waiting_messages_from, last_test,
                       parent_nodes, cmh_parked, overlayVars, resVars>>

\* Node::handle_probe_answer(k, m, r, i) at the node the answer names, up to
\* its send: the count for k goes down by one; at zero the initiator logs
\* DEADLOCK DETECTED and any other node answers its parent.
handle_probe_answer ==
    LET k == cmh_msg.k
        m == cmh_msg.m
        i == cmh_msg.j
        self == Deliver(cmh_msg.i, cmh_msg.j)
        should_process == /\ m = MapGet(last_test[self], k, 0)
                          /\ MapGet(wait_status[self], k, FALSE)
        skip == \/ is_active[self]
                \/ ~should_process
                \/ k \notin DOMAIN probe_count[self]
        n == u32_dec(probe_count[self][k])
    IN  /\ cmh_msg # <<>>
        /\ cmh_msg.type = "ProbeAnswer"
        /\ self # None
        /\ \/ \* nothing to do; or the subtraction overflows and panics (a
              \* build with overflow checks)
              /\ skip \/ probe_count[self][k] = 0
              /\ cmh_msg' = <<>>
              /\ UNCHANGED <<wait_status, probe_count, cmh_stack, cmh_hist>>
           \/ /\ ~skip
              /\ probe_count' = [probe_count EXCEPT ![self] = MapInsert(@, k, n)]
              /\ IF n # 0
                 THEN /\ cmh_msg' = <<>>
                      /\ cmh_hist' = Accepted(self, k)
                      /\ UNCHANGED <<wait_status, cmh_stack>>
                 ELSE IF is_initiator(k, i, self)
                 THEN /\ cmh_hist' = [Accepted(self, k) EXCEPT !.declared =
                             Append(@, [at |-> self, k |-> k, m |-> m,
                                        r |-> cmh_msg.i, i |-> i,
                                        round |-> Len(cmh_hist.started),
                                        accepted |-> Accepted(self, k).accepted,
                                        sent |-> cmh_stack[1].count,
                                        unsent |-> Cardinality(cmh_stack[1].rest)])]
                      /\ wait_status' = [wait_status EXCEPT ![self] =
                                            MapInsert(@, k, FALSE)]
                      /\ cmh_msg' = <<>>
                      /\ UNCHANGED cmh_stack
                 ELSE IF k \in DOMAIN parent_nodes[self]
                 THEN /\ cmh_msg' = [type |-> "ProbeAnswer", k |-> k, m |-> m,
                                     i |-> i, j |-> parent_nodes[self][k]]
                      /\ cmh_stack' = Append(cmh_stack,
                             Frame("handle_probe_answer", self, k, m, {}))
                      /\ cmh_hist' = Accepted(self, k)
                      /\ UNCHANGED wait_status
                 ELSE /\ wait_status' = [wait_status EXCEPT ![self] =
                                            MapInsert(@, k, FALSE)]
                      /\ cmh_msg' = <<>>
                      /\ cmh_hist' = Accepted(self, k)
                      /\ UNCHANGED cmh_stack
        /\ UNCHANGED <<is_active, waiting_messages_from, last_test,
                       parent_nodes, cmh_parked, overlayVars, resVars>>

Edges(W) == {e \in CmhNodes \X CmhNodes : e[2] \in W[e[1]]}

\* A waits-on relation and activity flags that the commands setPassive and
\* waitForMessage produce: a waiting node is passive (handle_waiting_for), it
\* waits for other nodes, and a node that is waited for is active only when
\* some node other than the waiting ones could grant it permission.
Producible(W, Act) ==
    /\ \A x \in CmhNodes : x \notin W[x]
    /\ \A x \in Act : W[x] = {}
    /\ Cardinality(Edges(W)) <= MaxEdges
    /\ \A z \in Act :
          (Act = {z}) => \/ \A x \in CmhNodes : z \notin W[x]
                         \/ \E h \in CmhNodes \ {z} : z \notin W[h]

InitCMH ==
    /\ nodes = CmhNodes
    /\ neighbor_info = RingOf(NumCmhNodes)
    /\ alive = [x \in CmhNodes |-> TRUE]
    /\ InitRepairing(CmhNodes)
    /\ InitJoining(CmhNodes)
    /\ clients = [x \in CmhNodes |-> {}]
    /\ lamport_time = [x \in CmhNodes |-> 0]
    /\ hist = [op |-> "none", who |-> 1, via |-> 1, ok |-> TRUE,
               pre |-> neighbor_info, prev_op |-> <<"none", 1, 1>>,
               count |-> 0]
    /\ InitResources(CmhNodes)
    /\ \E Act \in SUBSET CmhNodes, W \in [CmhNodes -> SUBSET CmhNodes] :
          /\ Producible(W, Act)
          /\ is_active = [x \in CmhNodes |-> x \in Act]
          /\ waiting_messages_from = W
          \* a node that was denied is in the permission_queue of the
          \* node it waits for
          /\ permission_queue =
                [y \in CmhNodes |-> {x \in CmhNodes : y \in W[x]}]
    /\ last_test = [x \in CmhNodes |-> <<>>]
    /\ wait_status = [x \in CmhNodes |-> <<>>]
    /\ parent_nodes = [x \in CmhNodes |-> <<>>]
    /\ probe_count = [x \in CmhNodes |-> <<>>]
    /\ cmh_stack = <<>>
    /\ cmh_msg = <<>>
    /\ cmh_hist = [started |-> <<>>, declared |-> <<>>, accepted |-> 0,
                   reply |-> "none"]
    /\ cmh_parked = {}

\* One detection round: every send waits for the handler it reaches.
NextCMH ==
    \/ \E n \in nodes : start_detection(n)
    \/ SendProbe
    \/ handle_probe
    \/ handle_probe_answer
    \/ Return

SpecCMH == InitCMH /\ [][NextCMH]_vars

\* Detection rounds started while earlier ones still run (the HTTP API and
\* the RPC server handle requests concurrently).
NextCMHConcurrent ==
    \/ \E n \in nodes : start_detection(n)
    \/ SendProbe
    \/ handle_probe_read
    \/ handle_probe_rest
    \/ handle_probe_answer
    \/ Return
    \/ \E t \in cmh_parked \cup {Idle} : Switch(t)

SpecCMHConcurrent == InitCMH /\ [][NextCMHConcurrent]_vars

\* The resource manager with the detector's start command: resources are
\* acquired and released, and detection is asked for at any node.
NextResDetect ==
    \/ NextRes
    \/ \E n \in nodes : start_detection(n)

SpecResDetect == InitRes /\ [][NextResDetect]_vars

----------------------------------------------------------------------------
(* Activity and permissions: cmh_funcs.rs *)

\* The three fields the permission messages work on.
PermState == [act |-> is_active, wait |-> waiting_messages_from,
              pq |-> permission_queue]

\* The orders in which a HashSet of nodes can yield its elements.
Orders == {ord \in [1..NumCmhNodes -> CmhNodes] :
              \A a, b \in DOMAIN ord : a # b => ord[a] # ord[b]}

\* The orders that differ for the nodes of S: the nodes outside S, whose
\* place makes no difference, come last and in ascending order.
OrdersOf(S) ==
    {ord \in Orders :
        \A a, b \in DOMAIN ord :
            (a < b /\ ord[a] \notin S) => (ord[b] \notin S /\ ord[a] < ord[b])}

\* The element of list that comes first in ord.
FirstOf(list, ord) ==
    ord[CHOOSE a \in DOMAIN ord :
           /\ ord[a] \in list
           /\ \A b \in DOMAIN ord : ord[b] \in list => a <= b]

RECURSIVE SetActive(_, _, _)
RECURSIVE GrantLoop(_, _, _, _)
RECURSIVE handle_permission_from(_, _, _, _)

\* handle_permission_from without the removal of from.
handle_permission_from_no_remove(st, self, from, ord) ==
    IF st.wait[self] = {} THEN SetActive(st, self, ord) ELSE st

\* Node::set_active at n: is_active is set, waiting_messages_from cleared,
\* and GrantPermission(owner) is sent for every owner of a copy of
\* permission_queue, each send returning after the handler it reaches;
\* permission_queue is empty afterwards.
SetActive(st, n, ord) ==
    LET st1 == [st EXCEPT !.act[n] = TRUE, !.wait[n] = {}]
        st2 == GrantLoop(st1, n, st1.pq[n], ord)
    IN  [st2 EXCEPT !.pq[n] = {}]

\* The loop "for owner in perm_list" of set_active at n.
GrantLoop(st, n, perm_list, ord) ==
    IF perm_list = {} THEN st
    ELSE LET owner == FirstOf(perm_list, ord)
             st1 == [st EXCEPT !.pq[n] = @ \ {owner}]
             st2 == handle_permission_from(st1, owner, n, ord)
         IN  GrantLoop(st2, n, perm_list \ {owner}, ord)

\* Node::handle_permission_from(from) at self, reached by GrantPermission(self)
\* sent by from: from leaves waiting_messages_from, and the node calls
\* set_active when the set is empty then.
handle_permission_from(st, self, from, ord) ==
    LET st1 == [st EXCEPT !.wait[self] = @ \ {from}]
    IN  IF st1.wait[self] = {} THEN SetActive(st1, self, ord) ELSE st1

\* Operator commands on activity (setActive, setPassive, waitForMessage)
\* issued in one run.
MaxPermCommands == 4

\* One more operator command, of at most MaxPermCommands in a run.
Commanded ==
    /\ res_hist.commands < MaxPermCommands
    /\ res_hist' = [res_hist EXCEPT !.commands = @ + 1]

\* Operator command POST /setActive on n.
set_active(n) ==
    /\ Commanded
    /\ \A owner \in permission_queue[n] : Deliver(n, owner) = owner
    /\ \E ord \in OrdersOf(UNION {permission_queue[x] : x \in nodes}) :
          LET st == SetActive(PermState, n, ord)
          IN  /\ is_active' = st.act
              /\ waiting_messages_from' = st.wait
              /\ permission_queue' = st.pq
    /\ cmh_hist' = [cmh_hist EXCEPT !.reply =
                       IF permission_queue[n] = {} THEN "Active"
                       ELSE "Granted"]
    /\ UNCHANGED <<last_test, wait_status, parent_nodes, probe_count, cmh_stack,
                   cmh_msg, cmh_parked, nodes, neighbor_info, alive,
                   hist, repairVars, joinVars, clients, lamport_time, owned_resources,
                   waiting_for, used_resources, blocked_processes, res_net>>

\* Operator command POST /setPassive on n.
set_passive(n) ==
    /\ Commanded
    /\ is_active' = [is_active EXCEPT ![n] = FALSE]
    /\ cmh_hist' = [cmh_hist EXCEPT !.reply = "Passive"]
    /\ UNCHANGED <<waiting_messages_from, permission_queue, last_test,
                   wait_status, parent_nodes, probe_count, cmh_stack,
                   cmh_msg, cmh_parked, nodes, neighbor_info, alive,
                   hist, repairVars, joinVars, clients, lamport_time, owned_resources,
                   waiting_for, used_resources, blocked_processes, res_net>>

\* handle_cmh_message, RequestPermission(addr), at addr for the requester
\* from: an active node grants, a passive one notes the requester in
\* permission_queue and denies.
RequestPermission(st, addr, from) ==
    IF st.act[addr]
    THEN [st |-> st, reply |-> "GrantPermission"]
    ELSE [st |-> [st EXCEPT !.pq[addr] = @ \cup {from}],
          reply |-> "DenyPermission"]

\* Operator command POST /waitForMessage on n with the address from:
\* Node::handle_waiting_for.
handle_waiting_for(n, from) ==
    LET st1 == [PermState EXCEPT !.act[n] = FALSE, !.wait[n] = @ \cup {from}]
        r == RequestPermission(st1, from, n)
        st2 == IF r.reply = "GrantPermission"
               THEN [r.st EXCEPT !.wait[n] = @ \ {from}, !.act[n] = TRUE]
               ELSE r.st
    IN  /\ Commanded
        /\ Deliver(n, from) = from
        /\ is_active' = st2.act
        /\ waiting_messages_from' = st2.wait
        /\ permission_queue' = st2.pq
        /\ cmh_hist' = [cmh_hist EXCEPT !.reply = r.reply]
        /\ UNCHANGED <<last_test, wait_status, parent_nodes, probe_count,
                       cmh_stack, cmh_msg, cmh_parked, nodes,
                       neighbor_info, alive, hist, repairVars, joinVars, clients,
                       lamport_time, owned_resources, waiting_for,
                       used_resources, blocked_processes, res_net>>

InitPerm ==
    /\ nodes = CmhNodes
    /\ neighbor_info = RingOf(NumCmhNodes)
    /\ alive = [x \in CmhNodes |-> TRUE]
    /\ hist = [op |-> "none", who |-> 1, via |-> 1, ok |-> TRUE,
               pre |-> neighbor_info, prev_op |-> <<"none", 1, 1>>,
               count |-> 0]
    /\ InitRepairing(CmhNodes)
    /\ InitJoining(CmhNodes)
    /\ InitNodeRest(CmhNodes)
    /\ InitResources(CmhNodes)
    /\ InitDetector(CmhNodes)

\* The operator commands that change activity, one at a time.
NextPerm ==
    \/ \E n \in nodes : set_active(n)
    \/ \E n \in nodes : set_passive(n)
    \/ \E n \in nodes, from \in nodes : handle_waiting_for(n, from)

SpecPerm == InitPerm /\ [][NextPerm]_vars

\* Operator commands setActive that arrive while a detection round runs.
MaxActivations == 1

set_active_in_round(n) ==
    /\ cmh_stack # <<>> \/ cmh_msg # <<>>
    /\ res_hist.commands < MaxActivations
    /\ set_active(n)

\* A detection round during which nodes are made active.
NextCMHActive ==
    \/ NextCMH
    \/ \E n \in nodes : set_active_in_round(n)

SpecCMHActive == InitCMH /\ [][NextCMHActive]_vars

----------------------------------------------------------------------------
(* Detector claims *)

\* The last round was started at a and has run to its end.
RoundDone(a) ==
    /\ cmh_hist.started # <<>>
    /\ cmh_hist.started[Len(cmh_hist.started)] = a
    /\ cmh_stack = <<>>
    /\ cmh_msg = <<>>

\* The declarations of the last round.
Declared ==
    {x \in 1..Len(cmh_hist.declared) :
        cmh_hist.declared[x].round = Len(cmh_hist.started)}

DeclaredAt(a) == {x \in Declared : cmh_hist.declared[x].at = a}

\* a, b (and c) are passive and wait for exactly the next node of the cycle.
Cycle2(a, b) ==
    /\ a # b
    /\ ~is_active[a] /\ ~is_active[b]
    /\ waiting_messages_from[a] = {b} /\ waiting_messages_from[b] = {a}

Cycle3(a, b, c) ==
    /\ Cardinality({a, b, c}) = 3
    /\ ~is_active[a] /\ ~is_active[b] /\ ~is_active[c]
    /\ waiting_messages_from[a] = {b}
    /\ waiting_messages_from[b] = {c}
    /\ waiting_messages_from[c] = {a}

\* C2: in a round started at A no node other than A declares deadlock and A
\* declares at most once; when the round has run to its end in a two-node or
\* three-node cycle through A there is exactly one declaration, at A.
C2_OnlyInitiatorDeclares ==
    /\ \A x \in 1..Len(cmh_hist.declared) :
          LET d == cmh_hist.declared[x]
          IN  /\ d.at = cmh_hist.started[d.round]
              /\ \A y \in 1..Len(cmh_hist.declared) :
                    cmh_hist.declared[y].round = d.round => y = x
    /\ \A a \in nodes :
          (/\ RoundDone(a)
           /\ \/ \E b \in nodes : Cycle2(a, b)
              \/ \E b, c \in nodes : Cycle3(a, b, c))
          => (Cardinality(DeclaredAt(a)) = 1 /\ Cardinality(Declared) = 1)

C2_Witness ==
    /\ RoundDone(1)
    /\ Cycle3(1, 2, 3)
    /\ Cardinality(DeclaredAt(1)) = 1
    /\ Cardinality(Declared) = 1

\* The nodes reached from the nodes of S along waits-on edges between
\* passive nodes, in at most hops steps.
RECURSIVE PassiveReach(_, _)
PassiveReach(S, hops) ==
    LET step == {y \in nodes : ~is_active[y] /\
                    \E x \in S : ~is_active[x] /\ y \in waiting_messages_from[x]}
    IN  IF hops = 0 THEN {} ELSE step \cup PassiveReach(step, hops - 1)

\* a is passive and lies on a cycle of the waits-on relation all of whose
\* nodes are passive.
OnPassiveCycle(a) == a \in PassiveReach({a}, Cardinality(nodes))

\* C3: a round started at a passive node A on a cycle of passive nodes leads
\* to A declaring deadlock: when the round has run to its end, A has
\* declared.
C3_Original ==
    \A a \in nodes :
        (RoundDone(a) /\ OnPassiveCycle(a)) => DeclaredAt(a) # {}

LastDeclared == cmh_hist.declared[Len(cmh_hist.declared)]

\* C33: at the moment a node declares deadlock it is passive and a cycle of
\* passive nodes of the waits-on relation is reached from it along waits-on
\* edges between passive nodes, also when nodes are made active while the
\* round is in flight.
C33_Original ==
    [][(cmh_hist'.declared # cmh_hist.declared) =>
          /\ ~is_active[LastDeclared'.at]
          /\ \E y \in PassiveReach({LastDeclared'.at}, Cardinality(nodes)) :
                OnPassiveCycle(y)]_vars

C12_Original ==
    \A x \in 1..Len(cmh_hist.declared) :
        LET d == cmh_hist.declared[x]
        IN  d.unsent = 0 /\ d.accepted = d.sent

\* This step sends a probe of x for initiator k.
ProbeSent(x, k) ==
    /\ cmh_msg = <<>> /\ cmh_msg' # <<>>
    /\ cmh_msg'.type = "ProbeRequest"
    /\ cmh_msg'.j = x /\ cmh_msg'.k = k

\* This step is x accepting an answer for initiator k: x is passive, the
\* answer carries the current test number, wait_status[k] is true and
\* probe_count has an entry for k.
AnswerAccepted(x, k) ==
    /\ cmh_msg # <<>>
    /\ cmh_msg.type = "ProbeAnswer"
    /\ cmh_msg.k = k
    /\ Deliver(cmh_msg.i, cmh_msg.j) = x
    /\ ~is_active[x]
    /\ cmh_msg.m = MapGet(last_test[x], k, 0)
    /\ k \in DOMAIN probe_count[x]
    /\ cmh_msg' # cmh_msg \/ cmh_stack' # cmh_stack

\* C36: while wait_status[k] is true at a node and the test number stays the
\* same, probe_count[k] moves only by +1 for a probe sent and by -1 for an
\* answer accepted, so that it is the number of probes sent minus the number
\* of answers accepted and no accepted answer is lost by a later write; and
\* it never goes below zero.  The first send of a handler, which starts the
\* count of a new test, is left out.
C36_Original ==
    [][\A x \in nodes, k \in nodes :
          (/\ MapGet(wait_status[x], k, FALSE)
           /\ MapGet(last_test'[x], k, 0) = MapGet(last_test[x], k, 0)
           /\ ~(ProbeSent(x, k) /\ Top.count = 0))
          => /\ MapGet(probe_count'[x], k, 0) =
                   MapGet(probe_count[x], k, 0)
                   + (IF ProbeSent(x, k) THEN 1 ELSE 0)
                   - (IF AnswerAccepted(x, k) THEN 1 ELSE 0)
             /\ MapGet(probe_count'[x], k, 0) >= 0]_vars

\* Node 1 is active, node 2 waits for 3 and node 3 waits for 1 and 2; the
\* first round was started at node 2 and has run to its end.
OrderScenario ==
    /\ is_active = [x \in nodes |-> x = 1]
    /\ waiting_messages_from = [x \in nodes |->
          IF x = 2 THEN {3} ELSE IF x = 3 THEN {1, 2} ELSE {}]
    /\ cmh_hist.started = <<2>>
    /\ RoundDone(2)

\* The round of OrderScenario in which node 3 sent its probe to node 2
\* first: node 2 declared.
OrderScenarioDeclared == OrderScenario /\ DeclaredAt(2) # {}

\* C37: whether the round ends with the initiator declaring is the same for
\* every order in which the nodes send their probes; here for the waits-on
\* relation of OrderScenario, where the initiator declares for one order of
\* the two probes of node 3 (OrderScenarioDeclared is reached): it declares
\* for every order.
C37_Original == OrderScenario => DeclaredAt(2) # {}

\* C14: a detection round starts only at a node that is not active, and the
\* step in which start_detection answers Error changes neither last_test,
\* wait_status, parent_nodes, probe_count nor sends a probe.
C14_ActiveStartNoEffect ==
    [][/\ (cmh_hist'.started # cmh_hist.started) =>
             ~is_active[cmh_hist'.started[Len(cmh_hist'.started)]]
       /\ (cmh_hist'.reply = "Error" /\ cmh_hist.reply # "Error") =>
             /\ \E n \in nodes : is_active[n]
             /\ UNCHANGED <<last_test, wait_status, parent_nodes, probe_count,
                            cmh_msg, cmh_stack>>]_vars

C14_Witness ==
    /\ cmh_hist.reply = "Error"
    /\ \E n \in nodes : is_active[n]

\* The entry of the map f for the key k: empty when there is none.
Entry(f, k) == IF k \in DOMAIN f THEN <<f[k]>> ELSE <<>>

\* The initiator of the ProbeRequest or ProbeAnswer that is being handled:
\* the one of the message about to be received, or else the one of the
\* handler that runs.
Handled ==
    IF cmh_msg # <<>> THEN cmh_msg.k
    ELSE IF cmh_stack # <<>> THEN Top.k
    ELSE None

\* C25: a step of the handling of a ProbeRequest or ProbeAnswer of initiator
\* k leaves, on every node, the entries of last_test, wait_status,
\* parent_nodes and probe_count for every other initiator as they are.
C25_RoundsKeyed ==
    [][\A x \in nodes, k2 \in nodes :
          (Handled # None /\ k2 # Handled)
             => /\ Entry(last_test'[x], k2) = Entry(last_test[x], k2)
                /\ Entry(wait_status'[x], k2) = Entry(wait_status[x], k2)
                /\ Entry(parent_nodes'[x], k2) = Entry(parent_nodes[x], k2)
                /\ Entry(probe_count'[x], k2) = Entry(probe_count[x], k2)]_vars

\* C25 witness: a node takes part in the rounds of two initiators at once,
\* and a message of one of them is about to be handled at it.
C25_Witness ==
    \E x \in nodes, k1 \in nodes, k2 \in nodes :
        /\ k1 # k2
        /\ MapGet(wait_status[x], k1, FALSE)
        /\ MapGet(wait_status[x], k2, FALSE)
        /\ k1 \in DOMAIN parent_nodes[x] /\ k2 \in DOMAIN parent_nodes[x]
        /\ cmh_msg # <<>>
        /\ cmh_msg.k = k1
        /\ Deliver(IF cmh_msg.type = "ProbeRequest" THEN cmh_msg.j
                    ELSE cmh_msg.i,
                    IF cmh_msg.type = "ProbeRequest" THEN cmh_msg.i
                    ELSE cmh_msg.j) = x

\* The CMH maps of the node x.
CmhState(x) == <<last_test[x], wait_status[x], parent_nodes[x], probe_count[x]>>

\* C27: a passive node X that handles ProbeRequest{k, m, j, i = X} with m
\* above its last_test[k] (0 if absent) sets last_test[k] = m,
\* wait_status[k] = true and parent_nodes[k] = j, and then sends
\* ProbeRequest{k, m, X, w} once for each w of its waiting_messages_from:
\* every send takes a w not yet served, and the handler ends when it has sent
\* as many probes as the set has elements.  The probe is handled at the node
\* i after the ring has passed it on, and no other node's CMH maps change.
C27_NewerProbe ==
    [][/\ handle_probe
          => LET X == Deliver(cmh_msg.j, cmh_msg.i)
             IN  /\ X = cmh_msg.i
                 /\ \A y \in nodes \ {X} : CmhState(y)' = CmhState(y)
                 /\ (~is_active[X]
                      /\ cmh_msg.m > MapGet(last_test[X], cmh_msg.k, 0))
                    => /\ Entry(last_test'[X], cmh_msg.k) = <<cmh_msg.m>>
                       /\ Entry(wait_status'[X], cmh_msg.k) = <<TRUE>>
                       /\ Entry(parent_nodes'[X], cmh_msg.k) = <<cmh_msg.j>>
                       /\ Len(cmh_stack') = Len(cmh_stack) + 1
                       /\ LET f == cmh_stack'[Len(cmh_stack')]
                          IN  /\ f.kind = "handle_probe" /\ f.at = X
                              /\ f.k = cmh_msg.k /\ f.m = cmh_msg.m
                              /\ f.rest = waiting_messages_from[X]
                              /\ f.count = 0
       /\ (SendProbe /\ Top.kind = "handle_probe")
          => /\ cmh_msg'.type = "ProbeRequest"
             /\ cmh_msg'.k = Top.k /\ cmh_msg'.m = Top.m
             /\ cmh_msg'.j = Top.at
             /\ cmh_msg'.i \in Top.rest
             /\ cmh_stack'[Len(cmh_stack)].rest = Top.rest \ {cmh_msg'.i}
             /\ cmh_stack'[Len(cmh_stack)].count = Top.count + 1
       /\ (Return /\ Top.kind = "handle_probe")
          => /\ Top.rest = {}
             /\ Top.count = Cardinality(waiting_messages_from[Top.at])]_vars

\* C27 witness: the handler of a newer probe at a node that waits for two
\* nodes has sent both probes and is about to end.
C27_Witness ==
    /\ cmh_stack # <<>>
    /\ cmh_msg = <<>>
    /\ Top.kind = "handle_probe"
    /\ Top.rest = {}
    /\ Top.count = 2
    /\ Cardinality(waiting_messages_from[Top.at]) = 2
    /\ MapGet(last_test[Top.at], Top.k, 0) = Top.m
    /\ MapGet(wait_status[Top.at], Top.k, FALSE)

\* The node the ProbeAnswer in flight is for.
Addressee == Deliver(cmh_msg.i, cmh_msg.j)

\* C28: a ProbeAnswer(k, m, r, i) handled at a node that is active, or whose
\* last_test[k] (0 if absent) is not m, or whose wait_status[k] is not true,
\* is dropped: the four CMH maps of every node are unchanged, no message is
\* sent, no handler is left waiting and no deadlock is declared.
C28_AnswerDropped ==
    [][(/\ handle_probe_answer
        /\ \/ is_active[Addressee]
           \/ MapGet(last_test[Addressee], cmh_msg.k, 0) # cmh_msg.m
           \/ ~MapGet(wait_status[Addressee], cmh_msg.k, FALSE))
          => /\ UNCHANGED <<probe_count, wait_status, last_test, parent_nodes>>
             /\ cmh_msg' = <<>>
             /\ cmh_stack' = cmh_stack
             /\ cmh_hist' = cmh_hist]_vars

\* C28 witness: an answer of round (k, m) is about to be handled at a node
\* that took part in that round (last_test[k] = m, wait_status[k] true, a
\* probe of its own still counted) and has been made active since.
C28_Witness ==
    /\ cmh_msg # <<>>
    /\ cmh_msg.type = "ProbeAnswer"
    /\ Addressee # None
    /\ is_active[Addressee]
    /\ MapGet(last_test[Addressee], cmh_msg.k, 0) = cmh_msg.m
    /\ MapGet(wait_status[Addressee], cmh_msg.k, FALSE)
    /\ MapGet(probe_count[Addressee], cmh_msg.k, 0) > 0

\* A handle_probe_answer step at a node other than the initiator k that takes
\* the node's probe_count[k] to zero and has a parent to answer.
Propagates ==
    /\ handle_probe_answer
    /\ Addressee # cmh_msg.k
    /\ ~is_active[Addressee]
    /\ MapGet(probe_count'[Addressee], cmh_msg.k, 1) = 0
    /\ probe_count' # probe_count
    /\ cmh_msg.k \in DOMAIN parent_nodes[Addressee]

\* C29 as stated: the answer sent up carries the r of the answer received.
C29_Original ==
    [][Propagates
          => /\ cmh_msg' # <<>>
             /\ cmh_msg'.type = "ProbeAnswer"
             /\ cmh_msg'.i = cmh_msg.i]_vars

\* C29, amended: a node other than the initiator whose probe_count[k] reaches
\* zero on ProbeAnswer(k, m, r, self) sends ProbeAnswer(k, m, self,
\* parent_nodes[k]): the same k and m, its own address as third field; when
\* that send has returned it sets wait_status[k] to false.
C29_PropagateUp ==
    [][/\ Propagates
          => /\ cmh_msg' = [type |-> "ProbeAnswer", k |-> cmh_msg.k,
                            m |-> cmh_msg.m, i |-> Addressee,
                            j |-> parent_nodes[Addressee][cmh_msg.k]]
             /\ wait_status' = wait_status
             /\ Len(cmh_stack') = Len(cmh_stack) + 1
             /\ cmh_stack'[Len(cmh_stack')].kind = "handle_probe_answer"
             /\ cmh_stack'[Len(cmh_stack')].at = Addressee
             /\ cmh_stack'[Len(cmh_stack')].k = cmh_msg.k
       /\ (Return /\ Top.kind = "handle_probe_answer")
          => /\ Entry(wait_status'[Top.at], Top.k) = <<FALSE>>
             /\ \A x \in nodes, k2 \in nodes :
                   (x # Top.at \/ k2 # Top.k)
                      => Entry(wait_status'[x], k2) = Entry(wait_status[x], k2)
       ]_vars

\* C29 witness: a node other than the initiator has sent its answer up, the
\* answer has been handled, and the node is about to set wait_status[k].
C29_Witness ==
    /\ cmh_stack # <<>>
    /\ cmh_msg = <<>>
    /\ Top.kind = "handle_probe_answer"
    /\ Top.at # Top.k
    /\ MapGet(probe_count[Top.at], Top.k, 1) = 0
    /\ MapGet(wait_status[Top.at], Top.k, FALSE)
    /\ Top.k \in DOMAIN parent_nodes[Top.at]

\* C22: a node turns active, apart from the operator's set_active, only with
\* an empty waiting_messages_from; a waitForMessage command that got a
\* GrantPermission for one address does not leave the node active while
\* other addresses remain in waiting_messages_from.
C22_Original ==
    [][/\ \A n \in nodes :
             (~is_active[n] /\ is_active'[n])
                => waiting_messages_from'[n] = {}
       /\ \A n \in nodes, from \in nodes :
             (handle_waiting_for(n, from) /\ is_active'[n])
                => waiting_messages_from'[n] = {}]_vars

\* C24: a node R that holds a Queued answer for a resource of owner O (O is
\* in R.waiting_for) has O as an outgoing wait-for edge: O is in
\* R.waiting_messages_from, and start_detection at R is accepted and has a
\* ProbeRequest with receiver O to send.
C24_Original ==
    [][\A R \in nodes :
          (start_detection(R) /\ DOMAIN waiting_for[R] # {})
             => \A r \in DOMAIN waiting_for[R] :
                   /\ waiting_for[R][r] \in waiting_messages_from[R]
                   /\ cmh_hist'.reply = "Success"
                   /\ cmh_stack' # <<>>
                   /\ waiting_for[R][r] \in cmh_stack'[1].rest]_vars

\* C23: when X runs set_active with R in its permission_queue, afterwards R
\* no longer waits for X and is active if it waits for nobody, and X is
\* active with an empty waiting_messages_from and an empty permission_queue.
C23_DeferredGrant ==
    [][\A X \in nodes :
          (permission_queue[X] # {} /\ cmh_hist'.reply = "Granted")
             => \/ /\ \A R \in permission_queue[X] :
                         /\ X \notin waiting_messages_from'[R]
                         /\ waiting_messages_from'[R] = {} => is_active'[R]
                   /\ is_active'[X]
                   /\ waiting_messages_from'[X] = {}
                   /\ permission_queue'[X] = {}
                \* or the step is not a set_active of X
                \/ ~set_active(X)]_vars

\* C23 witness: the last command was a set_active that found requesters in
\* permission_queue, and it has woken a node other than the one it ran on
\* while a third node still waits.
C23_Witness ==
    /\ cmh_hist.reply = "Granted"
    /\ \E X \in nodes, R \in nodes :
          /\ X # R
          /\ is_active[X] /\ is_active[R]
          /\ permission_queue[X] = {}
          /\ \E y \in nodes \ {X, R} :
                ~is_active[y] /\ waiting_messages_from[y] # {}

\* C13: on every node and for every initiator k, last_test[k] never
\* decreases, also when probes for k with different test numbers are handled
\* at the same time.
C13_Original ==
    [][\A n \in nodes, k \in nodes :
          MapGet(last_test'[n], k, 0) >= MapGet(last_test[n], k, 0)]_vars

====
